---- MODULE Spec2Model ----
(***************************************************************************)
(* Model of libpam/pam_google_authenticator.c: the verification engine of  *)
(* the PAM module and the read-modify-write cycle over the per-user state  *)
(* file.  Several login attempts (processes) run google_authenticator()    *)
(* against one state file; the file system, the wall clock and the PAM     *)
(* conversation are the environment.                                       *)
(*                                                                         *)
(* The state file is a sequence of lines.  A line is a record              *)
(*   [t, key, val] with t one of                                           *)
(*     "secret"  : line 1, the BASE32 secret                               *)
(*     "flag"    : an option line without a value   (`" TOTP_AUTH\n')      *)
(*     "opt"     : an option line `" KEY v1 v2 ...\n' as set_cfg_value     *)
(*                 writes it; val is the list of its decimal tokens        *)
(*                 (RESETTING_TIME_SKEW: tm1, skew1, tm2, skew2, ...)      *)
(*     "scratch" : a line holding one decimal number                       *)
(*     "blank"   : an empty line                                           *)
(* and the byte size of the file is computed from the lines (Size).        *)
(***************************************************************************)
EXTENDS Integers, Sequences, FiniteSets, Bags, TLC

(***************************************************************************)
(* Bounds of the model.                                                    *)
(***************************************************************************)
\* attempts that may be started, over all processes
MaxAttempts == 3
\* seconds the wall clock may advance after the start
MaxElapsed == 1

(***************************************************************************)
(* Program constants.                                                      *)
(***************************************************************************)
\* get_timestamp(): seconds per time step
TimeStep == 30
\* check_scratch_codes: smallest valid scratch code, 10*1000*1000
MinScratch == 10000000
\* check_timebased_code: codes are below 1000000
MaxCode == 1000000
\* check_timebased_code: skew search range 25*60
SkewRange == 1500
\* window_size: default window
DefaultWindow == 3
\* window_size: largest window
MaxWindow == 100
\* rate_limit: largest number of attempts
MaxRateAttempts == 100
\* rate_limit: largest interval
MaxRateInterval == 3600
\* check_time_skew: sizeof(tms)/sizeof(int)
SkewEntries == 3
\* open_secret_file: the mode mask 03577
PermMask == 1919
\* open_secret_file: the mode wanted 0400, owner-read
OwnerRead == 256
\* open_secret_file: largest file length 64*1024
MaxFileSize == 65536

PAM_SUCCESS == "PAM_SUCCESS"
PAM_SESSION_ERR == "PAM_SESSION_ERR"

(***************************************************************************)
(* Text helpers: the byte length of what sprintf writes.                   *)
(***************************************************************************)
RECURSIVE Digits(_)
Digits(n) == IF n < 10 THEN 1 ELSE 1 + Digits(n \div 10)

\* "%d"
SignedLen(n) == IF n < 0 THEN 1 + Digits(-n) ELSE Digits(n)

\* "%d%+d"
PairLen(tm, skew) == Digits(tm) + 1 + Digits(IF skew < 0 THEN -skew ELSE skew)

KeyLen(key) ==
  CASE key = "TOTP_AUTH" -> 9
    [] key = "RATE_LIMIT" -> 10
    [] key = "DISALLOW_REUSE" -> 14
    [] key = "WINDOW_SIZE" -> 11
    [] key = "TIME_SKEW" -> 9
    [] key = "RESETTING_TIME_SKEW" -> 19
    [] OTHER -> 0

RECURSIVE SumLen(_)
SumLen(val) ==
  IF val = <<>> THEN 0
  ELSE SignedLen(Head(val)) + (IF Len(val) > 1 THEN 1 ELSE 0) + SumLen(Tail(val))

RECURSIVE PairsLen(_)
PairsLen(val) ==
  IF Len(val) < 2 THEN 0
  ELSE PairLen(val[1], val[2]) + (IF Len(val) > 2 THEN 1 ELSE 0)
       + PairsLen(SubSeq(val, 3, Len(val)))

ValLen(key, val) ==
  IF key = "RESETTING_TIME_SKEW" THEN PairsLen(val) ELSE SumLen(val)

\* length of the secret on line 1 (JBSWY3DPEHPK3PXP)
SecretLen == 16

LineLen(l) ==
  CASE l.t = "secret" -> SecretLen + 1
    [] l.t = "flag" -> 2 + KeyLen(l.key) + 1
    [] l.t = "opt" -> KeyLen(l.key) + ValLen(l.key, l.val) + 4
    [] l.t = "scratch" -> Digits(l.val[1]) + 1
    [] OTHER -> 1

RECURSIVE Size(_)
Size(buf) == IF buf = <<>> THEN 0 ELSE LineLen(Head(buf)) + Size(Tail(buf))

SecretLine == [t |-> "secret", key |-> "", val |-> <<>>]
Flag(key) == [t |-> "flag", key |-> key, val |-> <<>>]
Opt(key, val) == [t |-> "opt", key |-> key, val |-> val]
Scratch(c) == [t |-> "scratch", key |-> "", val |-> <<c>>]
Blank == [t |-> "blank", key |-> "", val |-> <<>>]

IsKey(l, key) == l.t \in {"flag", "opt"} /\ l.key = key

(***************************************************************************)
(* Config line store: get_cfg_value, set_cfg_value.                        *)
(***************************************************************************)
\* index of the first option line of the key, 0 when there is none
FirstIdx(buf, key) ==
  IF \E i \in 1..Len(buf) : IsKey(buf[i], key)
  THEN CHOOSE i \in 1..Len(buf) :
         IsKey(buf[i], key) /\ \A j \in 1..(i - 1) : ~IsKey(buf[j], key)
  ELSE 0

HasCfg(buf, key) == FirstIdx(buf, key) # 0

\* the value of the first matching line; callers test HasCfg for the NULL case
get_cfg_value(key, buf) ==
  IF HasCfg(buf, key) THEN buf[FirstIdx(buf, key)].val ELSE <<>>

\* strspn(stop, "\r\n"): the empty lines that follow position i
RECURSIVE BlanksAfter(_, _)
BlanksAfter(buf, i) ==
  IF i < Len(buf) /\ buf[i + 1].t = "blank" THEN 1 + BlanksAfter(buf, i + 1) ELSE 0

\* faulty variant: later lines of the key are left in place
DeleteKey_None(rest, key) == rest

\* the third loop of set_cfg_value: delete every later line of the key
RECURSIVE DeleteKey(_, _)
DeleteKey(rest, key) ==
  IF rest = <<>> THEN <<>>
  ELSE IF IsKey(Head(rest), key)
       THEN DeleteKey(SubSeq(rest, 2 + BlanksAfter(rest, 1), Len(rest)), key)
       ELSE <<Head(rest)>> \o DeleteKey(Tail(rest), key)

\* faulty variant: the new line is always put after line 1 and the lines
\* the key already has are left in place
set_cfg_value_Insert(key, val, buf) ==
  LET start == 2 + BlanksAfter(buf, 1)
  IN SubSeq(buf, 1, start - 1) \o <<Opt(key, val)>>
       \o SubSeq(buf, start, Len(buf))

\* set_cfg_value(): the buffer with the key's line replaced by the new one,
\* or with the new line put after line 1; later lines of the key deleted
set_cfg_value(key, val, buf) ==
  LET i == FirstIdx(buf, key)
      \* start: the existing line, or the end of line 1 and its line breaks
      start == IF i # 0 THEN i ELSE 2 + BlanksAfter(buf, 1)
      \* stop: the first line that is kept after the replaced span
      stop == IF i # 0 THEN i + 1 + BlanksAfter(buf, i) ELSE start
  IN SubSeq(buf, 1, start - 1) \o <<Opt(key, val)>>
       \o DeleteKey(SubSeq(buf, stop, Len(buf)), key)

is_totp(buf) == \E i \in 1..Len(buf) : IsKey(buf[i], "TOTP_AUTH")

(***************************************************************************)
(* Rate limiter.                                                           *)
(***************************************************************************)
\* qsort with comparator (ascending for timestamps less than 2^31 apart)
RECURSIVE Insert(_, _)
Insert(x, sorted) ==
  IF sorted = <<>> THEN <<x>>
  ELSE IF x <= Head(sorted) THEN <<x>> \o sorted
       ELSE <<Head(sorted)>> \o Insert(x, Tail(sorted))

RECURSIVE Sort(_)
Sort(seq) == IF seq = <<>> THEN <<>> ELSE Insert(Head(seq), Sort(Tail(seq)))

\* faulty variant: a timestamp exactly interval seconds old is dropped too
Expired_Inclusive(t, now, interval) ==
  IF now >= interval THEN t <= now - interval ELSE TRUE

\* timestamps[i] < now - interval in unsigned arithmetic: when now < interval
\* the difference wraps to more than 2^32 - 3600, above every timestamp here
Expired(t, now, interval) == IF now >= interval THEN t < now - interval ELSE TRUE

\* faulty variant: the loop does not stop at a timestamp of the future
RECURSIVE PruneLoop_Future(_, _, _, _, _, _)
PruneLoop_Future(ts, now, interval, i, start, stop) ==
  IF i >= Len(ts) THEN [start |-> start, stop |-> stop]
  ELSE IF Expired(ts[i + 1], now, interval)
       THEN PruneLoop_Future(ts, now, interval, i + 1, i + 1, i)
       ELSE PruneLoop_Future(ts, now, interval, i + 1, start, i)

\* the pruning loop; i, start and stop are the C (0-based) indices
RECURSIVE PruneLoop(_, _, _, _, _, _)
PruneLoop(ts, now, interval, i, start, stop) ==
  IF i >= Len(ts) THEN [start |-> start, stop |-> stop]
  ELSE IF Expired(ts[i + 1], now, interval)
       THEN PruneLoop(ts, now, interval, i + 1, i + 1, i)
       ELSE IF ts[i + 1] > now
            THEN [start |-> start, stop |-> stop]
            ELSE PruneLoop(ts, now, interval, i + 1, start, i)

\* rate_limit(): rc, the new buffer and whether *updated was set
rate_limit(buf, now) ==
  IF ~HasCfg(buf, "RATE_LIMIT") THEN [rc |-> 0, buf |-> buf, updated |-> FALSE]
  ELSE
    LET value == get_cfg_value("RATE_LIMIT", buf)
    IN IF Len(value) < 2 \/ value[1] < 1 \/ value[1] > MaxRateAttempts
          \/ value[2] < 1 \/ value[2] > MaxRateInterval
       THEN [rc |-> -1, buf |-> buf, updated |-> FALSE]
       ELSE
         LET attempts == value[1]
             interval == value[2]
             timestamps == Sort(<<now>> \o SubSeq(value, 3, Len(value)))
             r == PruneLoop(timestamps, now, interval, 0, 0, -1)
             exceeded == r.stop - r.start + 1 > attempts
             start == IF exceeded THEN r.stop - attempts + 1 ELSE r.start
             list == <<attempts, interval>> \o SubSeq(timestamps, start + 1, r.stop + 1)
         IN [rc |-> IF exceeded THEN -1 ELSE 0,
             buf |-> set_cfg_value("RATE_LIMIT", list, buf),
             updated |-> TRUE]

(***************************************************************************)
(* Scratch code ledger.                                                    *)
(***************************************************************************)
\* the scanning loop of check_scratch_codes from line i on: the index of the
\* line that holds the code, 0 when the scan ends without a match
RECURSIVE ScratchScan(_, _, _)
ScratchScan(buf, i, code) ==
  IF i > Len(buf) THEN 0
  ELSE IF buf[i].t \in {"blank", "flag", "opt"} THEN ScratchScan(buf, i + 1, code)
       ELSE IF buf[i].t # "scratch" \/ buf[i].val[1] < MinScratch THEN 0
            ELSE IF buf[i].val[1] = code THEN i
                 ELSE ScratchScan(buf, i + 1, code)

\* check_scratch_codes(): 0 and the code's digits removed (its line break
\* stays, an empty line), or 1 with the buffer as it was
check_scratch_codes(buf, code) ==
  LET i == ScratchScan(buf, 2, code)
  IN IF i # 0
     THEN [rc |-> 0, buf |-> [buf EXCEPT ![i] = Blank], updated |-> TRUE]
     ELSE [rc |-> 1, buf |-> buf, updated |-> FALSE]

(***************************************************************************)
(* Codec.  hmac_sha1 is a pure function of the secret and the counter; its *)
(* stand-in keeps the one property the verifier relies on, that counters   *)
(* less than 1000000 apart get different codes.                            *)
(***************************************************************************)
hmac_sha1(value) == value

\* compute_code(): the truncated hash modulo 1000000
compute_code(value) == hmac_sha1(value) % MaxCode

get_timestamp(now) == now \div TimeStep

(***************************************************************************)
(* Replay ledger.                                                          *)
(***************************************************************************)
\* faulty variant: the WINDOW_SIZE line is not read
window_size_Default(buf) == DefaultWindow

\* window_size(): 0 stands for the error return
window_size(buf) ==
  IF ~HasCfg(buf, "WINDOW_SIZE") THEN DefaultWindow
  ELSE LET value == get_cfg_value("WINDOW_SIZE", buf)
       IN IF value = <<>> \/ value[1] < 1 \/ value[1] > MaxWindow THEN 0
          ELSE value[1]

\* faulty variant: an entry exactly window steps away is kept
RECURSIVE LedgerScan_Late(_, _, _, _)
LedgerScan_Late(list, tm, window, kept) ==
  IF list = <<>> THEN [blocked |-> FALSE, kept |-> kept]
  ELSE LET b == Head(list)
       IN IF tm = b THEN [blocked |-> TRUE, kept |-> kept]
          ELSE IF b - tm > window \/ tm - b > window
               THEN LedgerScan_Late(Tail(list), tm, window, kept)
               ELSE LedgerScan_Late(Tail(list), tm, window, Append(kept, b))

\* the loop over the blocked counters: "blocked" when tm is listed, else the
\* entries that are kept
RECURSIVE LedgerScan(_, _, _, _)
LedgerScan(list, tm, window, kept) ==
  IF list = <<>> THEN [blocked |-> FALSE, kept |-> kept]
  ELSE LET b == Head(list)
       IN IF tm = b THEN [blocked |-> TRUE, kept |-> kept]
          ELSE IF b - tm >= window \/ tm - b >= window
               THEN LedgerScan(Tail(list), tm, window, kept)
               ELSE LedgerScan(Tail(list), tm, window, Append(kept, b))

invalidate_timebased_code(tm, buf) ==
  IF ~HasCfg(buf, "DISALLOW_REUSE") THEN [rc |-> 0, buf |-> buf, updated |-> FALSE]
  ELSE
    LET window == window_size(buf)
        r == LedgerScan(get_cfg_value("DISALLOW_REUSE", buf), tm, window, <<>>)
    IN IF window = 0 \/ r.blocked
       THEN [rc |-> -1, buf |-> buf, updated |-> FALSE]
       ELSE [rc |-> 0,
             buf |-> set_cfg_value("DISALLOW_REUSE", Append(r.kept, tm), buf),
             updated |-> TRUE]

(***************************************************************************)
(* Skew tracker.                                                           *)
(***************************************************************************)
\* the parsing loop: the last three (tm, skew) pairs of the line, flat
LastEntries(val) ==
  IF Len(val) > 2 * SkewEntries
  THEN SubSeq(val, Len(val) - 2 * SkewEntries + 1, Len(val))
  ELSE val

\* faulty variant: the oldest entry is never dropped
AppendEntry_Grow(ent, tm, skew) == ent \o <<tm, skew>>

\* append one entry, dropping the oldest of three
AppendEntry(ent, tm, skew) ==
  (IF Len(ent) = 2 * SkewEntries THEN SubSeq(ent, 3, Len(ent)) ELSE ent)
    \o <<tm, skew>>

\* the validity loop over three entries; skew is the skew of this attempt,
\* which the loop compares every earlier skew with
SkewSequenceOk(ent, skew) ==
  \A i \in 1..(SkewEntries - 1) :
    LET last_tm == ent[2 * i - 1]
        last_skew == ent[2 * i]
        tm_i == ent[2 * i + 1]
    IN ~(tm_i <= last_tm \/ tm_i > last_tm + 2
         \/ last_skew - skew < -1 \/ last_skew - skew > 1)

\* C integer division truncates toward zero
CDiv(a, b) == IF a >= 0 THEN a \div b ELSE -((-a) \div b)

AvgSkew(ent) == CDiv(ent[2] + ent[4] + ent[6], SkewEntries)

check_time_skew(buf, skew, tm) ==
  LET has == HasCfg(buf, "RESETTING_TIME_SKEW")
      old == IF has THEN LastEntries(get_cfg_value("RESETTING_TIME_SKEW", buf))
                    ELSE <<>>
      n == Len(old)
  IN IF has /\ n > 0 /\ tm + skew = old[n - 1] + old[n]
     THEN [rc |-> -1, buf |-> buf, updated |-> FALSE]
     ELSE
       LET ent == AppendEntry(old, tm, skew)
           ok == Len(ent) = 2 * SkewEntries /\ SkewSequenceOk(ent, skew)
           buf1 == IF ok THEN set_cfg_value("TIME_SKEW", <<AvgSkew(ent)>>, buf)
                         ELSE buf
           reset == IF ok THEN <<>> ELSE ent
       IN [rc |-> IF ok THEN 0 ELSE -1,
           buf |-> set_cfg_value("RESETTING_TIME_SKEW", reset, buf1),
           updated |-> TRUE]

(***************************************************************************)
(* TOTP verifier.                                                          *)
(***************************************************************************)
\* faulty variant: the window is centred, window / 2 steps to either side
WindowOffsets_Centred(window) ==
  [k \in 1..window |-> k - 1 - (window \div 2)]

\* the counters tm + skew + i of the acceptance loop, in loop order
WindowOffsets(window) ==
  [k \in 1..window |-> k - 1 - ((window - 1) \div 2)]

\* the first offset of the window whose code equals the input, as a
\* one-element sequence, or the empty sequence
WindowMatch(code, tm, skew, window) ==
  LET offs == WindowOffsets(window)
      hits == {k \in 1..window : compute_code(tm + skew + offs[k]) = code}
  IN IF hits = {} THEN <<>>
     ELSE <<offs[CHOOSE k \in hits : \A h \in hits : k <= h]>>

\* faulty variant: the search takes every match for a token that is behind
SkewSearch_Behind(code, tm) ==
  LET hits == {i \in 0..(SkewRange - 1) :
                 compute_code(tm - i) = code \/ compute_code(tm + i) = code}
  IN IF hits = {} THEN 1000000
     ELSE -(CHOOSE k \in hits : \A h \in hits : k <= h)

\* the skew search: the first i of 0..1499 (tm - i before tm + i) whose code
\* equals the input; 1000000 when there is none
SkewSearch(code, tm) ==
  LET hits == {i \in 0..(SkewRange - 1) :
                 compute_code(tm - i) = code \/ compute_code(tm + i) = code}
  IN IF hits = {} THEN 1000000
     ELSE LET i == CHOOSE k \in hits : \A h \in hits : k <= h
          IN IF compute_code(tm - i) = code THEN -i ELSE i

\* check_timebased_code(): rc 1 when the input is no time-based code
check_timebased_code(buf, code, now, noskewadj) ==
  IF ~is_totp(buf) \/ code < 0 \/ code >= MaxCode
  THEN [rc |-> 1, buf |-> buf, updated |-> FALSE, via |-> "none", ctr |-> 0]
  ELSE
    LET tm == get_timestamp(now)
        skew_str == get_cfg_value("TIME_SKEW", buf)
        skew == IF HasCfg(buf, "TIME_SKEW") /\ skew_str # <<>> THEN skew_str[1] ELSE 0
        window == window_size(buf)
    IN IF window = 0
       THEN [rc |-> -1, buf |-> buf, updated |-> FALSE, via |-> "none", ctr |-> 0]
       ELSE
         LET m == WindowMatch(code, tm, skew, window)
         IN IF m # <<>>
            THEN LET r == invalidate_timebased_code(tm + skew + m[1], buf)
                 IN [rc |-> r.rc, buf |-> r.buf, updated |-> r.updated,
                     via |-> IF r.rc = 0 THEN "window" ELSE "replay",
                     ctr |-> tm + skew + m[1]]
            ELSE
              LET s == IF noskewadj THEN 1000000 ELSE SkewSearch(code, tm)
              IN IF s # 1000000
                 THEN LET r == check_time_skew(buf, s, tm)
                      IN [rc |-> r.rc, buf |-> r.buf, updated |-> r.updated,
                          via |-> IF r.rc = 0 THEN "skew" ELSE "none",
                          ctr |-> tm + s]
                 ELSE [rc |-> -1, buf |-> buf, updated |-> FALSE,
                       via |-> "none", ctr |-> 0]

(***************************************************************************)
(* The system: attempts (one google_authenticator() call each) of several  *)
(* processes, the state file, its temp sibling and the wall clock.         *)
(***************************************************************************)
VARIABLES
  clock,   \* wall clock, seconds: time(NULL)
  file,    \* the state file: [content, mtime, ver, bases, mode, owner, kind,
           \* link]; mode, owner, kind are what stat() tells, link whether
           \* the path is a symbolic link to it; ver counts its
           \* replacements, bases lists the version each replacer had read
  tmp,     \* the sibling path + "~": [exists, content, mtime, owner]
  att,     \* per process: the locals of its google_authenticator() call
  fsuid,   \* per process: the filesystem uid, setfsuid()
  started, \* number of attempts started so far
  hist,    \* the attempts that returned: a bag of their summaries
  scn      \* the scenario: the module arguments and the environment's limits

vars == <<clock, file, tmp, att, fsuid, started, hist, scn>>

Procs == {1, 2}

\* 1111111109 s, the clock of the reference scenario: counter 37037036
BaseTime == 37037036 * TimeStep + 29

RootUid == 0
UserUid == 1000

NoTmp == [exists |-> FALSE, content |-> <<>>, mtime |-> 0, owner |-> 0]

\* the locals of google_authenticator() at its entry, plus bookkeeping:
\* stage, the last orchestrator state reached; prompts, the conversation
\* calls made; via and ctr, how the code was accepted and at which counter;
\* readVer, the file version read; replaced, whether the rename happened;
\* buf0, the buffer as it was read; commit, the outcome of
\* write_file_contents ("none" while it has not run, "ok", "failed");
\* seen, the number of attempts that had returned when this one began;
\* now and pass, the rate limiter's clock reading and whether it let the
\* attempt through
FreshAttempt ==
  [pc |-> "idle", rc |-> PAM_SESSION_ERR, old_uid |-> -1, filesize |-> 0,
   mtime |-> 0, buf |-> <<>>, code |-> -1, updated |-> FALSE,
   stage |-> "Start", prompts |-> 0, via |-> "none", ctr |-> 0,
   readVer |-> -1, replaced |-> FALSE, seen |-> 0, now |-> 0, pass |-> FALSE,
   buf0 |-> <<>>, commit |-> "none"]

\* the number of attempts that have returned
Returned == started - Cardinality({q \in Procs : att[q].pc # "idle"})

\* what the user may type at the prompt at time now: "scratch", a scratch
\* code of the file; "totp", the token's current code; "stale", the code of
\* a token running StaleSteps behind; "wrong", a code that matches nothing;
\* "lagging", the code of a token one step less behind; "none", no usable
\* answer (request_verification_code returns -1)
StaleSteps == 10
CodeOf(kind, now) ==
  CASE kind = "scratch" -> 12345678
    [] kind = "totp" -> compute_code(get_timestamp(now))
    [] kind = "stale" -> compute_code(get_timestamp(now) - StaleSteps)
    [] kind = "lagging" -> compute_code(get_timestamp(now) - (StaleSteps - 1))
    [] kind = "wrong" -> 999999
    [] OTHER -> -1

\* the bitwise and of two naturals
RECURSIVE BitAnd(_, _)
BitAnd(a, b) ==
  IF a = 0 \/ b = 0 THEN 0
  ELSE (a % 2) * (b % 2) + 2 * BitAnd(a \div 2, b \div 2)

\* faulty variant: every one of the twelve mode bits is compared
open_secret_file_Strict(f, uid) ==
  IF \/ f.mode # OwnerRead
     \/ f.kind # "reg"
     \/ f.owner # uid
  THEN -1
  ELSE IF Size(f.content) < 1 \/ Size(f.content) > MaxFileSize
  THEN -1
  ELSE 0

\* open_secret_file(): open(secret_filename, O_RDONLY) resolves a symbolic
\* link, so fstat() reports on the file f the path leads to; a descriptor
\* (0) or -1
open_secret_file(f, uid) ==
  IF \/ BitAnd(f.mode, PermMask) # OwnerRead
     \/ f.kind # "reg"
     \/ f.owner # uid
  THEN -1
  ELSE IF Size(f.content) < 1 \/ Size(f.content) > MaxFileSize
  THEN -1
  ELSE 0

\* get_user_name, get_secret_filename, drop_privileges, open_secret_file,
\* read_file_contents, get_shared_secret: the head of the && chain.  env0 is
\* the first step the environment lets fail, if any; env, the first step
\* that fails.
Begin(p) ==
  /\ att[p].pc = "idle"
  /\ p \in scn.procs
  /\ started < scn.attempts
  /\ started' = started + 1
  /\ \E env0 \in scn.envs :
       LET env == IF env0 \in {"ok", "nosecret"}
                       /\ open_secret_file(file, UserUid) < 0
                  THEN "noread" ELSE env0
       IN
       /\ att' = [att EXCEPT ![p] =
            IF env \in {"nopath", "nopriv", "noread"}
            THEN [FreshAttempt EXCEPT
                    !.pc = "persist",
                    !.old_uid = IF env = "noread" THEN fsuid[p] ELSE -1,
                    !.stage = CASE env = "nopath" -> "Start"
                                [] env = "nopriv" -> "PathResolved"
                                [] OTHER -> "PrivDropped",
                    !.seen = IF "seen" \in scn.track THEN Returned ELSE 0]
            ELSE [FreshAttempt EXCEPT
                    !.pc = IF env = "ok" THEN "rate" ELSE "persist",
                    !.old_uid = fsuid[p],
                    !.stage = IF env = "ok" THEN "SecretDecoded" ELSE "FileRead",
                    !.buf = file.content,
                    !.buf0 = file.content,
                    !.filesize = Size(file.content),
                    !.mtime = file.mtime,
                    !.readVer = file.ver,
                    !.seen = IF "seen" \in scn.track THEN Returned ELSE 0]]
       /\ fsuid' = [fsuid EXCEPT ![p] =
            IF env \in {"nopath", "nopriv"} THEN @ ELSE UserUid]
  /\ UNCHANGED <<clock, file, tmp, hist, scn>>

\* faulty variant: the attempt goes on to the prompt whatever rate_limit says
RateLimit_Ignored(p) ==
  /\ att[p].pc = "rate"
  /\ LET r == rate_limit(att[p].buf, clock)
     IN att' = [att EXCEPT ![p] =
          [@ EXCEPT !.buf = r.buf,
                    !.updated = @ \/ r.updated,
                    !.now = clock,
                    !.pass = r.rc >= 0,
                    !.stage = IF r.rc >= 0 THEN "RateChecked" ELSE @,
                    !.pc = "prompt"]]
  /\ UNCHANGED <<clock, file, tmp, fsuid, started, hist, scn>>

\* rate_limit
RateLimit(p) ==
  /\ att[p].pc = "rate"
  /\ LET r == rate_limit(att[p].buf, clock)
     IN att' = [att EXCEPT ![p] =
          [@ EXCEPT !.buf = r.buf,
                    !.updated = @ \/ r.updated,
                    !.now = clock,
                    !.pass = r.rc >= 0,
                    !.stage = IF r.rc >= 0 THEN "RateChecked" ELSE @,
                    !.pc = IF r.rc >= 0 THEN "prompt" ELSE "persist"]]
  /\ UNCHANGED <<clock, file, tmp, fsuid, started, hist, scn>>

\* what process p may type at time now: the codes of the scenario's kinds,
\* and the codes of a token that runs d time steps off the server's clock,
\* for the scenario's offsets d
Typed(p, now) ==
  {CodeOf(kind, now) : kind \in scn.codes[p]}
    \cup {compute_code(get_timestamp(now) + d) : d \in scn.offsets}

\* request_verification_code
RequestCode(p) ==
  /\ att[p].pc = "prompt"
  /\ \E c \in Typed(p, clock) :
       att' = [att EXCEPT ![p] =
         [@ EXCEPT !.prompts = @ + 1,
                   !.code = c,
                   !.stage = IF c >= 0 THEN "CodeRead" ELSE @,
                   !.pc = IF c >= 0 THEN "check" ELSE "persist"]]
  /\ UNCHANGED <<clock, file, tmp, fsuid, started, hist, scn>>

\* faulty variant: a code that is no scratch code is refused without
\* check_timebased_code
CheckCodes_ScratchOnly(p) ==
  /\ att[p].pc = "check"
  /\ LET s == check_scratch_codes(att[p].buf, att[p].code)
     IN att' = [att EXCEPT ![p] =
          IF s.rc = 0
          THEN [@ EXCEPT !.rc = PAM_SUCCESS, !.buf = s.buf, !.updated = TRUE,
                         !.via = "scratch", !.stage = "Decided",
                         !.pc = "persist"]
          ELSE [@ EXCEPT !.stage = "Decided", !.pc = "persist"]]
  /\ UNCHANGED <<clock, file, tmp, fsuid, started, hist, scn>>

\* the switch over check_scratch_codes and check_timebased_code
CheckCodes(p) ==
  /\ att[p].pc = "check"
  /\ LET s == check_scratch_codes(att[p].buf, att[p].code)
         t == check_timebased_code(s.buf, att[p].code, clock, scn.noskewadj)
     IN att' = [att EXCEPT ![p] =
          IF s.rc = 0
          THEN [@ EXCEPT !.rc = PAM_SUCCESS, !.buf = s.buf, !.updated = TRUE,
                         !.via = "scratch", !.stage = "Decided",
                         !.pc = "persist"]
          ELSE [@ EXCEPT !.rc = IF t.rc = 0 THEN PAM_SUCCESS ELSE @,
                         !.buf = t.buf, !.updated = @ \/ t.updated,
                         !.via = t.via, !.ctr = t.ctr, !.stage = "Decided",
                         !.pc = "persist"]]
  /\ UNCHANGED <<clock, file, tmp, fsuid, started, hist, scn>>

\* faulty variant: the buffer is written only after a success
ShouldPersist_OnSuccess(updated, rc) == updated /\ rc = PAM_SUCCESS

\* faulty variant: the buffer is written at the end of every attempt
ShouldPersist_Always(updated, rc) == TRUE

\* faulty variant: the buffer is never written
ShouldPersist_Never(updated, rc) == FALSE

\* google_authenticator: "Persist the new state", if (updated)
ShouldPersist(updated, rc) == updated

\* faulty variant: the temp file is opened without O_EXCL, so an existing
\* one is truncated and taken over
CreateTemp_Shared(p) ==
  /\ att[p].pc = "persist"
  /\ ShouldPersist(att[p].updated, att[p].rc)
  /\ att' = [att EXCEPT ![p] = [@ EXCEPT !.pc = "stat"]]
  /\ tmp' = [exists |-> TRUE, content |-> <<>>, mtime |-> clock, owner |-> p]
  /\ UNCHANGED <<clock, file, fsuid, started, hist, scn>>

\* write_file_contents: open(tmp_filename, O_WRONLY|O_CREAT|O_EXCL...)
CreateTemp(p) ==
  /\ att[p].pc = "persist"
  /\ ShouldPersist(att[p].updated, att[p].rc)
  /\ IF tmp.exists
     THEN /\ att' = [att EXCEPT ![p] =
                [@ EXCEPT !.rc = PAM_SESSION_ERR, !.commit = "failed",
                          !.pc = "cleanup"]]
          /\ tmp' = tmp
     ELSE /\ att' = [att EXCEPT ![p] = [@ EXCEPT !.pc = "stat"]]
          /\ tmp' = [exists |-> TRUE, content |-> <<>>, mtime |-> clock,
                     owner |-> p]
  /\ UNCHANGED <<clock, file, fsuid, started, hist, scn>>

\* write_file_contents: "make sure the secret file is still the same"
FileUnchanged(st_size, st_mtime, old_size, old_mtime) ==
  ~(st_size # old_size \/ st_mtime # old_mtime)

\* write_file_contents: stat(secret_filename) against old_size, old_mtime
StatGuard(p) ==
  /\ att[p].pc = "stat"
  /\ att' = [att EXCEPT ![p] =
       [@ EXCEPT !.pc = IF FileUnchanged(Size(file.content), file.mtime,
                                         att[p].filesize, att[p].mtime)
                         THEN "write" ELSE "unlink"]]
  /\ UNCHANGED <<clock, file, tmp, fsuid, started, hist, scn>>

\* faulty variant: the result of write() is ignored
WriteTemp_Unchecked(p) ==
  /\ att[p].pc = "write"
  /\ \E complete \in scn.writes :
       /\ tmp' = [tmp EXCEPT
            !.content = IF complete THEN att[p].buf
                        ELSE SubSeq(att[p].buf, 1, 1),
            !.mtime = clock]
       /\ att' = [att EXCEPT ![p] = [@ EXCEPT !.pc = "rename"]]
  /\ UNCHANGED <<clock, file, fsuid, started, hist, scn>>

\* write_file_contents: write(fd, buf, strlen(buf)), complete or short
WriteTemp(p) ==
  /\ att[p].pc = "write"
  /\ \E complete \in scn.writes :
       /\ tmp' = [tmp EXCEPT
            !.content = IF complete THEN att[p].buf
                        ELSE SubSeq(att[p].buf, 1, 1),
            !.mtime = clock]
       /\ att' = [att EXCEPT ![p] =
            [@ EXCEPT !.pc = IF complete THEN "rename" ELSE "unlink"]]
  /\ UNCHANGED <<clock, file, fsuid, started, hist, scn>>

\* write_file_contents: rename(tmp_filename, secret_filename)
RenameTemp(p) ==
  /\ att[p].pc = "rename"
  /\ \E ok \in scn.renames :
       IF ok
       THEN /\ file' = [content |-> tmp.content, mtime |-> tmp.mtime,
                        ver |-> file.ver + 1,
                        bases |-> Append(file.bases, att[p].readVer),
                        mode |-> OwnerRead, owner |-> fsuid[p],
                        kind |-> "reg", link |-> FALSE]
            /\ tmp' = NoTmp
            /\ att' = [att EXCEPT ![p] =
                 [@ EXCEPT !.replaced = TRUE, !.commit = "ok",
                           !.pc = "cleanup"]]
       ELSE /\ att' = [att EXCEPT ![p] = [@ EXCEPT !.pc = "unlink"]]
            /\ UNCHANGED <<file, tmp>>
  /\ UNCHANGED <<clock, fsuid, started, hist, scn>>

\* faulty variant: a failed commit leaves the verdict as it was
UnlinkTemp_KeepVerdict(p) ==
  /\ att[p].pc = "unlink"
  /\ tmp' = NoTmp
  /\ att' = [att EXCEPT ![p] = [@ EXCEPT !.commit = "failed", !.pc = "cleanup"]]
  /\ UNCHANGED <<clock, file, fsuid, started, hist, scn>>

\* write_file_contents: unlink(tmp_filename) on the failure paths
UnlinkTemp(p) ==
  /\ att[p].pc = "unlink"
  /\ tmp' = NoTmp
  /\ att' = [att EXCEPT ![p] =
       [@ EXCEPT !.rc = PAM_SESSION_ERR, !.commit = "failed",
                 !.pc = "cleanup"]]
  /\ UNCHANGED <<clock, file, fsuid, started, hist, scn>>

\* what hist keeps of an attempt that returned at time t: the fields the
\* scenario tracks
Summary(a, t) ==
  [f \in scn.track |->
     CASE f = "rc" -> a.rc
       [] f = "via" -> a.via
       [] f = "code" -> a.code
       [] f = "ctr" -> a.ctr
       [] f = "seen" -> a.seen
       [] f = "pass" -> a.pass
       [] f = "now" -> a.now
       [] f = "replaced" -> a.replaced
       [] f = "idx" -> Returned + 1
       [] OTHER -> t]

\* the attempt is about to return: write_file_contents is over or not due
Returning(p) ==
  \/ att[p].pc = "cleanup"
  \/ att[p].pc = "persist" /\ ~ShouldPersist(att[p].updated, att[p].rc)

\* faulty variant: the attempt returns without setuser(old_uid)
Finish_Unrestored(p) ==
  /\ Returning(p)
  /\ att' = [att EXCEPT ![p] = FreshAttempt]
  /\ hist' = hist (+) SetToBag({Summary(att[p], clock)})
  /\ UNCHANGED <<clock, file, tmp, fsuid, started, scn>>

\* the end of google_authenticator(): setuser(old_uid), return rc
Finish(p) ==
  /\ Returning(p)
  /\ att' = [att EXCEPT ![p] = FreshAttempt]
  /\ fsuid' = [fsuid EXCEPT ![p] =
       IF att[p].old_uid >= 0 THEN att[p].old_uid ELSE @]
  /\ hist' = hist (+) SetToBag({Summary(att[p], clock)})
  /\ UNCHANGED <<clock, file, tmp, started, scn>>

\* the wall clock advances to a later instant of the scenario (seconds after
\* BaseTime)
Tick ==
  /\ \E d \in scn.instants :
       /\ BaseTime + d > clock
       /\ clock' = BaseTime + d
  /\ UNCHANGED <<file, tmp, att, fsuid, started, hist, scn>>

Next ==
  \/ \E p \in Procs :
       \/ Begin(p)
       \/ RateLimit(p)
       \/ RequestCode(p)
       \/ CheckCodes(p)
       \/ CreateTemp(p)
       \/ StatGuard(p)
       \/ WriteTemp(p)
       \/ RenameTemp(p)
       \/ UnlinkTemp(p)
       \/ Finish(p)
  \/ Tick

\* the process of an attempt is killed inside write_file_contents or right
\* after it: its locals and its filesystem uid are gone, it returns no
\* verdict, and the files stay as it left them
Die(p) ==
  /\ att[p].pc \in {"stat", "write", "rename", "unlink", "cleanup"}
  /\ att' = [att EXCEPT ![p] = FreshAttempt]
  /\ fsuid' = [fsuid EXCEPT ![p] = RootUid]
  /\ UNCHANGED <<clock, file, tmp, started, hist, scn>>

\* the attempts, the clock and process death
NextCrash ==
  \/ Next
  \/ \E p \in Procs : Die(p)

(***************************************************************************)
(* Initial state files and scenarios.                                      *)
(***************************************************************************)
\* RATE_LIMIT 2 30 with one attempt five seconds ago, replay ledger, TOTP,
\* two scratch codes
FileRate ==
  <<SecretLine, Opt("RATE_LIMIT", <<2, 30, BaseTime - 5>>),
    Flag("DISALLOW_REUSE"), Flag("TOTP_AUTH"),
    Scratch(12345678), Scratch(87654321)>>

\* no rate limit; a replay ledger holding the counter of an old login
FilePlain ==
  <<SecretLine, Opt("DISALLOW_REUSE", <<get_timestamp(BaseTime) - 100>>),
    Flag("TOTP_AUTH"), Scratch(12345678), Scratch(87654321)>>

\* what stat() tells of a state file as google-authenticator creates it:
\* mode 0400, a regular file of the user, reached without a symbolic link
PlainStat == [mode |-> OwnerRead, owner |-> UserUid, kind |-> "reg",
              link |-> FALSE]

\* ages: how many seconds ago the file was last written; stats: what
\* stat() tells of it
InitOf(files, ages, stats, scenario) ==
  /\ clock = BaseTime
  /\ \E f \in files, age \in ages, st \in stats :
       file = [content |-> f, mtime |-> BaseTime - age, ver |-> 0,
               bases |-> <<>>, mode |-> st.mode, owner |-> st.owner,
               kind |-> st.kind, link |-> st.link]
  /\ tmp = NoTmp
  /\ att = [p \in Procs |-> FreshAttempt]
  /\ fsuid = [p \in Procs |-> RootUid]
  /\ started = 0
  /\ hist = EmptyBag
  /\ scn = scenario

InitAt(files, ages, scenario) == InitOf(files, ages, {PlainStat}, scenario)

InitWith(files, scenario) == InitAt(files, {5}, scenario)

\* two processes racing within a few seconds
Init ==
  InitWith({FileRate, FilePlain},
           [procs |-> Procs, attempts |-> MaxAttempts, 
            instants |-> 1..MaxElapsed, envs |-> {"ok"},
            codes |-> [p \in Procs |-> {"scratch", "wrong"}], noskewadj |-> FALSE, offsets |-> {},
            writes |-> BOOLEAN, renames |-> {TRUE},
            track |-> {"rc", "via"}])

Spec == Init /\ [][Next]_vars

\* two processes racing with scratch codes and the token's current code, on
\* the file without a rate limit
InitRace ==
  InitWith({FilePlain},
           [procs |-> Procs, attempts |-> MaxAttempts, 
            instants |-> 1..MaxElapsed, envs |-> {"ok"},
            codes |-> [p \in Procs |-> {"scratch", "totp"}], noskewadj |-> FALSE, offsets |-> {},
            writes |-> BOOLEAN, renames |-> {TRUE},
            track |-> {"rc", "via"}])

SpecRace == InitRace /\ [][Next]_vars

\* one process, one attempt after the other, with every failure of the
\* environment and every kind of answer at the prompt; time steps apart, so
\* that three late codes in a row complete the skew learning
InitSeq ==
  InitWith({FileRate, FilePlain},
           [procs |-> {1}, attempts |-> MaxAttempts,
            instants |-> {k * TimeStep : k \in 1..(SkewEntries - 1)},
            envs |-> {"ok", "nopath", "nopriv", "noread", "nosecret"},
            codes |-> [p \in Procs |-> {"scratch", "totp", "stale", "wrong", "none"}],
            noskewadj |-> FALSE, offsets |-> {},
            writes |-> BOOLEAN, renames |-> BOOLEAN,
            track |-> {"rc"}])

SpecSeq == InitSeq /\ [][Next]_vars

\* TOTP with the replay ledger, nothing used yet
FileSkew == <<SecretLine, Flag("DISALLOW_REUSE"), Flag("TOTP_AUTH")>>

\* one process whose token runs StaleSteps behind: three attempts in three
\* consecutive time steps, and one more
InitSkew ==
  InitWith({FileSkew},
           [procs |-> {1}, attempts |-> SkewEntries + 1,
            instants |-> {k * TimeStep : k \in 1..(SkewEntries - 1)},
            envs |-> {"ok"},
            codes |-> [p \in Procs |-> {"stale", "totp"}], noskewadj |-> FALSE, offsets |-> {},
            writes |-> BOOLEAN, renames |-> {TRUE},
            track |-> {"rc", "via", "ctr", "idx", "t", "replaced"}])

SpecSkew == InitSkew /\ [][Next]_vars

\* RATE_LIMIT 1 30, no attempt made yet
FileLimit == <<SecretLine, Opt("RATE_LIMIT", <<1, 30>>), Flag("TOTP_AUTH")>>

\* two processes against the rate limiter; every commit step succeeds
InitLimit ==
  InitWith({FileLimit},
           [procs |-> Procs, attempts |-> MaxAttempts,
            instants |-> 1..MaxElapsed, envs |-> {"ok"},
            codes |-> [p \in Procs |-> {"totp", "wrong"}], noskewadj |-> FALSE, offsets |-> {},
            writes |-> {TRUE}, renames |-> {TRUE},
            track |-> {"pass", "now", "idx"}])

SpecLimit == InitLimit /\ [][Next]_vars

\* RATE_LIMIT 3 30, no attempt made yet
FileRate3 == <<SecretLine, Opt("RATE_LIMIT", <<3, 30>>), Flag("TOTP_AUTH")>>

\* one process, wrong codes, at 0, 1, 2, 3, 31 and 32 seconds
InitRate ==
  InitWith({FileRate3},
           [procs |-> {1}, attempts |-> MaxAttempts + 2,
            instants |-> {1, 2, 3, 31, 32}, envs |-> {"ok"},
            codes |-> [p \in Procs |-> {"wrong"}], noskewadj |-> FALSE, offsets |-> {},
            writes |-> BOOLEAN, renames |-> {TRUE},
            track |-> {"pass", "now", "replaced"}])

SpecRate == InitRate /\ [][Next]_vars

\* TOTP with an unused replay ledger, two scratch codes, and the evidence
\* of three late codes entered too far apart to establish a skew
FileReuse ==
  <<SecretLine,
    Opt("RESETTING_TIME_SKEW",
        <<get_timestamp(BaseTime) - 20, -StaleSteps,
          get_timestamp(BaseTime) - 10, -StaleSteps,
          get_timestamp(BaseTime) - 5, -StaleSteps>>),
    Flag("DISALLOW_REUSE"), Flag("TOTP_AUTH"),
    Scratch(12345678), Scratch(87654321)>>

\* the file was last written within the current second (a late code has
\* just been recorded) or five seconds ago; a session of process 2 stays
\* pending while process 1 logs in several times; every commit step succeeds
InitReuse ==
  InitAt({FileReuse}, {0, 5},
         [procs |-> Procs, attempts |-> MaxAttempts + 1,
          instants |-> 1..MaxElapsed, envs |-> {"ok"},
          codes |-> [p \in Procs |->
                       IF p = 1 THEN {"scratch", "totp", "lagging"}
                       ELSE {"scratch", "totp"}],
          noskewadj |-> FALSE, offsets |-> {},
          writes |-> {TRUE}, renames |-> {TRUE},
          track |-> {"rc", "via"}])

SpecReuse == InitReuse /\ [][Next]_vars

\* WINDOW_SIZE 1 with the replay ledger; without a stored skew, and with
\* a stored skew of one step
FileExact ==
  <<SecretLine, Opt("WINDOW_SIZE", <<1>>), Flag("DISALLOW_REUSE"),
    Flag("TOTP_AUTH")>>

FileExactSkewed ==
  <<SecretLine, Opt("WINDOW_SIZE", <<1>>), Opt("TIME_SKEW", <<1>>),
    Flag("DISALLOW_REUSE"), Flag("TOTP_AUTH")>>

\* one process whose token is in step with the server or one step ahead:
\* attempts in three consecutive time steps, and one more
InitExact ==
  InitWith({FileExact, FileExactSkewed},
           [procs |-> {1}, attempts |-> MaxAttempts + 1,
            instants |-> {k * TimeStep : k \in 1..(SkewEntries - 1)},
            envs |-> {"ok"},
            codes |-> [p \in Procs |-> {}], noskewadj |-> FALSE,
            offsets |-> {0, 1},
            writes |-> BOOLEAN, renames |-> {TRUE},
            track |-> {"rc", "via"}])

SpecExact == InitExact /\ [][Next]_vars

\* one process whose token runs StaleSteps ahead: attempts in consecutive
\* time steps with the token's code
InitAhead ==
  InitWith({FileSkew},
           [procs |-> {1}, attempts |-> MaxAttempts + 1,
            instants |-> {k * TimeStep : k \in 1..SkewEntries},
            envs |-> {"ok"},
            codes |-> [p \in Procs |-> {}], noskewadj |-> FALSE,
            offsets |-> {StaleSteps},
            writes |-> BOOLEAN, renames |-> {TRUE},
            track |-> {"rc", "via", "idx", "t", "replaced"}])

SpecAhead == InitAhead /\ [][Next]_vars

\* window sizes and stored skews of the window scenario, and how far off
\* the token may be
Windows == {1, 2, 3, 4, 5, MaxWindow - 1, MaxWindow}
Skews == {-2, 0, 3}
Offsets == (-(MaxWindow \div 2) - 4)..((MaxWindow \div 2) + 5)

\* WINDOW_SIZE w and TIME_SKEW sk, with the current counter on the
\* DISALLOW_REUSE line
FileWindow(w, sk) ==
  <<SecretLine, Opt("WINDOW_SIZE", <<w>>), Opt("TIME_SKEW", <<sk>>),
    Opt("DISALLOW_REUSE", <<get_timestamp(BaseTime)>>), Flag("TOTP_AUTH")>>

\* the same with the default window
FileDefaultWindow ==
  <<SecretLine, Opt("DISALLOW_REUSE", <<get_timestamp(BaseTime)>>),
    Flag("TOTP_AUTH")>>

\* one attempt with the code of any counter near the current one; no skew
\* learning
InitWindow ==
  InitWith({FileWindow(w, sk) : w \in Windows, sk \in Skews}
             \cup {FileDefaultWindow},
           [procs |-> {1}, attempts |-> 1,
            instants |-> 1..MaxElapsed, envs |-> {"ok"},
            codes |-> [p \in Procs |-> {}], noskewadj |-> TRUE,
            offsets |-> Offsets,
            writes |-> BOOLEAN, renames |-> {TRUE},
            track |-> {"rc"}])

SpecWindow == InitWindow /\ [][Next]_vars

\* the replay ledgers of the ledger scenario: up to two counters at most
\* LedgerSpan steps from the current one, in any order, and one of three
LedgerSpan == 4
Near == {get_timestamp(BaseTime) + d : d \in (-LedgerSpan)..LedgerSpan}
Ledgers ==
  {<<>>} \cup {<<a>> : a \in Near} \cup {<<a, b>> : a \in Near, b \in Near}
    \cup {<<get_timestamp(BaseTime) - LedgerSpan, get_timestamp(BaseTime) - 1,
            get_timestamp(BaseTime) + 2>>}

FileLedger(w, l) ==
  <<SecretLine, Opt("WINDOW_SIZE", <<w>>), Opt("DISALLOW_REUSE", l),
    Flag("TOTP_AUTH")>>

\* one attempt with the code of a counter near the current one, on any of
\* the ledgers
InitLedger ==
  InitWith({FileLedger(w, l) : w \in {1, 3, 4}, l \in Ledgers},
           [procs |-> {1}, attempts |-> 1,
            instants |-> 1..MaxElapsed, envs |-> {"ok"},
            codes |-> [p \in Procs |-> {}], noskewadj |-> TRUE,
            offsets |-> (-1)..2,
            writes |-> BOOLEAN, renames |-> {TRUE},
            track |-> {"rc"}])

SpecLedger == InitLedger /\ [][Next]_vars

\* the attempt lists of the pruning scenario: up to three timestamps, in any
\* order, from 31 seconds before the first attempt to 3 seconds after it
Stamps == {BaseTime + d : d \in {-31, -30, -2, -1, 0, 1, 3}}
StampLists ==
  {<<>>} \cup {<<a>> : a \in Stamps} \cup {<<a, b>> : a \in Stamps, b \in Stamps}
    \cup {<<a, b, c>> : a \in Stamps, b \in Stamps, c \in Stamps}

FilePrune(n, t, l) ==
  <<SecretLine, Opt("RATE_LIMIT", <<n, t>> \o l), Flag("TOTP_AUTH")>>

\* one attempt with a wrong code on any of the attempt lists
InitPrune ==
  InitWith({FilePrune(n, t, l) : n \in {1, 2, 3}, t \in {2, 30}, l \in StampLists},
           [procs |-> {1}, attempts |-> 1,
            instants |-> 1..MaxElapsed, envs |-> {"ok"},
            codes |-> [p \in Procs |-> {"wrong"}], noskewadj |-> FALSE,
            offsets |-> {},
            writes |-> BOOLEAN, renames |-> {TRUE},
            track |-> {"pass", "now"}])

SpecPrune == InitPrune /\ [][Next]_vars

\* the evidence of the skew scenario: up to three entries, in any order,
\* of the last TrackSpan time steps and the current one, each with a skew
\* at most one step from that of the token, which runs StaleSteps ahead
TrackSpan == 3
Evidence ==
  {<<get_timestamp(BaseTime) - d, StaleSteps + e>> :
     d \in 0..TrackSpan, e \in {-1, 0, 1}}
EvidenceLists ==
  {<<>>} \cup Evidence \cup {a \o b : a \in Evidence, b \in Evidence}
    \cup {a \o b \o c : a \in Evidence, b \in Evidence, c \in Evidence}
    \cup {<<get_timestamp(BaseTime) - 9, 0>> \o a \o b \o b :
            a \in Evidence, b \in Evidence}

FileTrack(l) ==
  <<SecretLine, Opt("RESETTING_TIME_SKEW", l), Flag("TOTP_AUTH")>>

\* one attempt with the current code of the token, now or a second (and a
\* time step) later
InitTrack ==
  InitWith({FileTrack(l) : l \in EvidenceLists},
           [procs |-> {1}, attempts |-> 1,
            instants |-> 1..MaxElapsed, envs |-> {"ok"},
            codes |-> [p \in Procs |-> {}], noskewadj |-> FALSE,
            offsets |-> {StaleSteps},
            writes |-> BOOLEAN, renames |-> {TRUE},
            track |-> {"rc"}])

SpecTrack == InitTrack /\ [][Next]_vars

\* the files of the store scenario: the secret followed by up to three
\* lines, in any order and with repetitions, of empty lines, two
\* RATE_LIMIT lines, the replay ledger, the TOTP flag and a scratch code
StoreLines ==
  {Blank, Opt("RATE_LIMIT", <<2, 30>>), Opt("RATE_LIMIT", <<1, 30, BaseTime - 5>>),
   Flag("DISALLOW_REUSE"), Flag("TOTP_AUTH"), Scratch(12345678)}
StoreFiles ==
  {<<SecretLine>> \o l :
     l \in {<<>>} \cup {<<a>> : a \in StoreLines}
           \cup {<<a, b>> : a \in StoreLines, b \in StoreLines}
           \cup {<<a, b, c>> : a \in StoreLines, b \in StoreLines,
                                c \in StoreLines}}

\* one attempt on any of the files
InitStore ==
  InitWith(StoreFiles,
           [procs |-> {1}, attempts |-> 1,
            instants |-> 1..MaxElapsed, envs |-> {"ok"},
            codes |-> [p \in Procs |-> {"scratch", "totp", "lagging"}],
            noskewadj |-> FALSE, offsets |-> {},
            writes |-> BOOLEAN, renames |-> {TRUE},
            track |-> {"rc"}])

SpecStore == InitStore /\ [][Next]_vars

\* one process at a time, each attempt in a process of its own that may be
\* killed during its commit
InitCrash ==
  InitWith({FilePlain},
           [procs |-> {1}, attempts |-> MaxAttempts,
            instants |-> 1..MaxElapsed, envs |-> {"ok"},
            codes |-> [p \in Procs |-> {"scratch", "totp"}],
            noskewadj |-> FALSE, offsets |-> {},
            writes |-> BOOLEAN, renames |-> {TRUE},
            track |-> {"rc", "via"}])

SpecCrash == InitCrash /\ [][NextCrash]_vars

\* WINDOW_SIZE 2 and a stored skew of one step; a replay ledger holding the
\* counter of an old login
FileExpiry ==
  <<SecretLine, Opt("WINDOW_SIZE", <<2>>), Opt("TIME_SKEW", <<1>>),
    Opt("DISALLOW_REUSE", <<get_timestamp(BaseTime) - 100>>),
    Flag("TOTP_AUTH")>>

\* two processes over ExpirySteps time steps, on a file written in the
\* current second, entering the codes of the two counters of the window; no
\* skew learning, so the window and the skew stay as the file has them
ExpirySteps == 2
InitExpiry ==
  InitAt({FileExpiry}, {0},
         [procs |-> Procs, attempts |-> MaxAttempts - 1,
          instants |-> {k * TimeStep : k \in 1..ExpirySteps},
          envs |-> {"ok"},
          codes |-> [p \in Procs |-> {}], noskewadj |-> TRUE,
          offsets |-> {1, 2},
          writes |-> {TRUE}, renames |-> {TRUE},
          track |-> {"rc", "via", "ctr"}])

SpecExpiry == InitExpiry /\ [][Next]_vars

\* TOTP with a replay ledger holding the counter of an old login, a scratch
\* code, and the evidence of three late codes entered too far apart to
\* establish a skew
FileStale ==
  <<SecretLine,
    Opt("RESETTING_TIME_SKEW",
        <<get_timestamp(BaseTime) - 20, -StaleSteps,
          get_timestamp(BaseTime) - 10, -StaleSteps,
          get_timestamp(BaseTime) - 5, -StaleSteps>>),
    Opt("DISALLOW_REUSE", <<get_timestamp(BaseTime) - 100>>),
    Flag("TOTP_AUTH"), Scratch(12345678)>>

\* on a file written in the current second, process 1 enters the scratch
\* code or the token's current code while process 2 enters a late code
InitStale ==
  InitAt({FileStale}, {0},
         [procs |-> Procs, attempts |-> MaxAttempts,
          instants |-> 1..MaxElapsed, envs |-> {"ok"},
          codes |-> [p \in Procs |->
                       IF p = 1 THEN {"scratch", "totp"} ELSE {"stale"}],
          noskewadj |-> FALSE, offsets |-> {},
          writes |-> BOOLEAN, renames |-> {TRUE},
          track |-> {"rc", "via"}])

SpecStale == InitStale /\ [][Next]_vars

\* the twelve permission bits of st_mode
Modes == 0..4095

\* every mode of a regular file of the user; and for the modes 0400, 0440,
\* 0600 and 04600 also files of root, directories, and paths that are a
\* symbolic link to the file
OpenStats ==
  {[mode |-> m, owner |-> UserUid, kind |-> "reg", link |-> FALSE] :
     m \in Modes}
  \cup [mode : {OwnerRead, OwnerRead + 32, OwnerRead + 128,
                2048 + OwnerRead + 128},
        owner : {UserUid, RootUid}, kind : {"reg", "dir"}, link : BOOLEAN]

\* one login with the scratch code, on a state file of any mode
InitOpen ==
  InitOf({FilePlain}, {5}, OpenStats,
         [procs |-> {1}, attempts |-> 1,
          instants |-> 1..MaxElapsed, envs |-> {"ok"},
          codes |-> [p \in Procs |-> {"scratch"}],
          noskewadj |-> FALSE, offsets |-> {},
          writes |-> BOOLEAN, renames |-> BOOLEAN,
          track |-> {"rc"}])

SpecOpen == InitOpen /\ [][Next]_vars

(***************************************************************************)
(* Properties.                                                             *)
(***************************************************************************)
\* the scratch codes a buffer lists
ScratchCodes(buf) ==
  {buf[i].val[1] : i \in {j \in 1..Len(buf) : buf[j].t = "scratch"}}

\* the step is the rename of process p
Replaces(p) == ~att[p].replaced /\ att'[p].replaced

\* a buffer without its empty lines and without the line of a scratch code
Without(buf, code) ==
  SelectSeq(buf, LAMBDA l : ~(l.t = "blank" \/ (l.t = "scratch" /\ l.val[1] = code)))

\* the same, also without the RATE_LIMIT line
WithoutRate(buf, code) ==
  SelectSeq(Without(buf, code), LAMBDA l : ~IsKey(l, "RATE_LIMIT"))

\* C1: of the attempts that read the same version of the state file and
\* commit, at most one replaces the file: no two replacements of the file
\* were made by attempts that had read the same version.
C1_AtMostOneReplaces ==
  \A i, j \in 1..Len(file.bases) : i # j => file.bases[i] # file.bases[j]

\* C1, the worst case: two attempts that read the same version of the file
\* have both replaced it, and both return success for the same time-based
\* code although DISALLOW_REUSE is set.
C1_BothReplace ==
  \E p \in Procs :
    /\ att[p].pc = "cleanup"
    /\ att[p].replaced
    /\ att[p].rc = PAM_SUCCESS
    /\ att[p].via = "window"
    /\ HasCfg(att[p].buf0, "DISALLOW_REUSE")
    /\ Cardinality({i \in 1..Len(file.bases) : file.bases[i] = att[p].readVer}) = 2
    /\ \E e \in BagToSet(hist) : e.rc = PAM_SUCCESS /\ e.via = "window"

\* C2: a scratch code listed once gives a success verdict to at most one
\* attempt (the scenarios type the one scratch code 12345678).
C2_ScratchCodeOnce ==
  \A e \in BagToSet(hist) :
    (e.rc = PAM_SUCCESS /\ e.via = "scratch") => CopiesIn(e, hist) <= 1

\* C2, the case found: two attempts have returned success by the scratch
\* code 12345678, and the file lists a scratch code still.
C2_TwiceAccepted ==
  /\ CopiesIn([rc |-> PAM_SUCCESS, via |-> "scratch"], hist) >= 2
  /\ ScratchCodes(file.content) # {}

\* C3: when an attempt that consumed a scratch code commits, the code is
\* gone from the file and every other line of the file the attempt had
\* read is unchanged; and no later step brings a scratch code back.
C3_OnlyTheCodeChanges ==
  [][/\ \A p \in Procs :
          (Replaces(p) /\ att[p].via = "scratch") =>
            /\ att[p].code \notin ScratchCodes(file'.content)
            /\ Without(file'.content, att[p].code)
                 = Without(att[p].buf0, att[p].code)
     /\ ScratchCodes(file'.content) \subseteq ScratchCodes(file.content)]_vars

\* C3, the case found: an attempt has returned success by the scratch code
\* 12345678, which its commit removed from the file, and the file, now
\* replaced by an attempt that logged in by the time-based code, lists
\* 12345678 again.
C3_Reappeared ==
  /\ CopiesIn([rc |-> PAM_SUCCESS, via |-> "scratch"], hist) >= 1
  /\ 12345678 \in ScratchCodes(file.content)
  /\ \E p \in Procs :
       /\ att[p].pc = "cleanup"
       /\ att[p].replaced
       /\ att[p].via = "window"

\* C7: what the rate limiter (and the skew tracker) changed in the buffer
\* is written by the commit whatever the verdict: an attempt whose updated
\* flag is set does not return without having run the commit; the commit
\* that succeeds makes the file the attempt's buffer, with the attempt's
\* timestamp on the RATE_LIMIT line; no other step of an attempt changes
\* the file, so a failed commit leaves it as it was.
C7_MutationsPersistOnFailure ==
  /\ [](\A p \in Procs :
          (Returning(p) /\ att[p].updated) => att[p].commit \in {"ok", "failed"})
  /\ [][/\ \A p \in Procs :
             Replaces(p) =>
               /\ file'.content = att[p].buf
               /\ HasCfg(att[p].buf0, "RATE_LIMIT") =>
                    \E k \in 3..Len(get_cfg_value("RATE_LIMIT", file'.content)) :
                      get_cfg_value("RATE_LIMIT", file'.content)[k] = att[p].now
        /\ (\A p \in Procs : ~Replaces(p)) => file' = file]_vars

\* C7 witness: an attempt with a wrong code, rejected, has replaced the
\* file with its buffer, which holds the rate limiter's update.
C7_Witness ==
  \E p \in Procs :
    /\ att[p].pc = "cleanup"
    /\ att[p].rc = PAM_SESSION_ERR
    /\ att[p].via = "none"
    /\ att[p].stage = "Decided"
    /\ att[p].commit = "ok"
    /\ file.content = att[p].buf
    /\ file.content # att[p].buf0

\* C8: the file at the state-file path changes only by the rename of a
\* committing attempt, and then holds that attempt's complete buffer; it
\* never holds a partial write, and a commit that fails leaves it alone.
C8_AtomicReplace ==
  [][file' # file =>
       \E p \in Procs :
         /\ att[p].pc = "rename"
         /\ Replaces(p)
         /\ file'.content = att[p].buf]_vars

\* C8 witness: a short write has left a partial temp file, the commit is
\* failing, and the file at the path is still the one the attempt read.
C8_Witness ==
  \E p \in Procs :
    /\ att[p].pc = "unlink"
    /\ tmp.exists
    /\ tmp.content # att[p].buf
    /\ file.content = att[p].buf0
    /\ file.content # att[p].buf

\* the TIME_SKEW of a buffer, 0 when it has none
SkewOf(buf) ==
  IF HasCfg(buf, "TIME_SKEW") /\ get_cfg_value("TIME_SKEW", buf) # <<>>
  THEN get_cfg_value("TIME_SKEW", buf)[1] ELSE 0

\* the counters blocked by a buffer's DISALLOW_REUSE line
Blocked(buf) ==
  LET l == get_cfg_value("DISALLOW_REUSE", buf) IN {l[i] : i \in 1..Len(l)}

\* counter c lies in the acceptance window of some instant between the
\* start of the attempt's rate limiter and now
InWindow(a, c) ==
  \E t \in a.now..clock :
    LET d == c - (get_timestamp(t) + SkewOf(a.buf0))
    IN -((window_size(a.buf0) - 1) \div 2) <= d /\ d <= window_size(a.buf0) \div 2

\* C9: an attempt returns success or session-error; it returns success
\* only if its code consumed a scratch code, or matched a counter of the
\* window that the replay ledger did not block, or completed the skew
\* learning, and if its commit succeeded when the updated flag was set;
\* an attempt that stopped before the verdict, whose code matched
\* nothing or was a replay, or whose commit failed returns session-error.
C9_VerdictSound ==
  \A p \in Procs :
    Returning(p) =>
      LET a == att[p] IN
      /\ a.rc \in {PAM_SUCCESS, PAM_SESSION_ERR}
      /\ a.rc = PAM_SUCCESS =>
           /\ a.stage = "Decided"
           /\ a.pass /\ a.prompts = 1
           /\ \/ /\ a.via = "scratch"
                 /\ a.code \in ScratchCodes(a.buf0)
                 /\ a.code \notin ScratchCodes(a.buf)
              \/ /\ a.via = "window"
                 /\ compute_code(a.ctr) = a.code
                 /\ InWindow(a, a.ctr)
                 /\ HasCfg(a.buf0, "DISALLOW_REUSE") =>
                      a.ctr \notin Blocked(a.buf0) /\ a.ctr \in Blocked(a.buf)
              \/ /\ a.via = "skew"
                 /\ compute_code(a.ctr) = a.code
                 /\ ~InWindow(a, a.ctr)
                 /\ Len(get_cfg_value("RESETTING_TIME_SKEW", a.buf0))
                      = 2 * (SkewEntries - 1)
                 /\ HasCfg(a.buf, "TIME_SKEW")
           /\ a.updated => a.commit = "ok"
      /\ (a.stage # "Decided" \/ a.via \in {"none", "replay"}
            \/ a.commit = "failed") => a.rc = PAM_SESSION_ERR

\* C9 witness: an attempt returns success for the third late code in a
\* row, the skew learning complete and its buffer committed.
C9_Witness ==
  \E p \in Procs :
    /\ Returning(p)
    /\ att[p].rc = PAM_SUCCESS
    /\ att[p].via = "skew"
    /\ att[p].commit = "ok"
    /\ SkewOf(file.content) = -StaleSteps

\* C10 as stated: every attempt that returns has issued exactly one prompt.
C10_ExactlyOnePrompt ==
  \A p \in Procs : Returning(p) => att[p].prompts = 1

\* C10 amended: an attempt issues at most one prompt, and it issues one
\* exactly when it got past the rate limiter; an attempt that fails at the
\* path, the privilege drop, the file, the secret or the rate limiter
\* issues none.
C10_OnePromptIffAdmitted ==
  \A p \in Procs :
    Returning(p) =>
      /\ att[p].prompts \in {0, 1}
      /\ att[p].prompts = 1 <=> att[p].pass
      /\ att[p].pass <=> att[p].stage \in {"RateChecked", "CodeRead", "Decided"}

\* C10 witness: an attempt stopped by the rate limiter returns without
\* having prompted.
C10_Witness ==
  \E p \in Procs :
    /\ Returning(p)
    /\ att[p].stage = "SecretDecoded"
    /\ att[p].updated
    /\ ~att[p].pass
    /\ att[p].prompts = 0

\* C4: with DISALLOW_REUSE set, after an attempt has returned success for a
\* time-based code at counter c (by the window or by the skew learning), a
\* later attempt within WINDOW_SIZE x 30 seconds whose code is matched at
\* the same counter fails with the replay error (attempts that fail because
\* their commit failed are left aside).
C4_NoReuseOfCounter ==
  \A e1, e2 \in BagToSet(hist) :
    ( /\ e1.idx < e2.idx
      /\ e1.rc = PAM_SUCCESS
      /\ e1.via \in {"window", "skew"}
      /\ e2.t - e1.t <= DefaultWindow * TimeStep
      /\ e2.via \in {"window", "replay", "skew"}
      /\ e2.via \in {"window", "skew"} => e2.replaced
      /\ e2.ctr = e1.ctr )
    => (e2.rc = PAM_SESSION_ERR /\ e2.via = "replay")

\* C4, the failing case: the third late code in a row was accepted by the
\* skew learning, its counter is not on the DISALLOW_REUSE line, and the
\* same code has been accepted again, through the window.
C4_ReusedAfterSkewLearning ==
  \E e1 \in BagToSet(hist) :
    /\ e1.rc = PAM_SUCCESS
    /\ e1.via = "skew"
    /\ \E p \in Procs :
         /\ Returning(p)
         /\ att[p].rc = PAM_SUCCESS
         /\ att[p].via = "window"
         /\ att[p].ctr = e1.ctr
         /\ att[p].commit = "ok"
         /\ e1.ctr \notin Blocked(att[p].buf0)

\* the parameters and the timestamps of a buffer's RATE_LIMIT line
RateN(buf) == get_cfg_value("RATE_LIMIT", buf)[1]
RateT(buf) == get_cfg_value("RATE_LIMIT", buf)[2]
RateList(buf) ==
  SubSeq(get_cfg_value("RATE_LIMIT", buf), 3, Len(get_cfg_value("RATE_LIMIT", buf)))

\* C5: with RATE_LIMIT N T, of the attempts that have returned, those that
\* passed the rate limiter within any T seconds are at most N.
C5_AtMostNPerWindow ==
  \A e \in BagToSet(hist) :
    Cardinality({f \in BagToSet(hist) :
                   /\ f.pass
                   /\ e.now <= f.now
                   /\ f.now < e.now + RateT(file.content)})
      <= RateN(file.content)

\* C5, the failing case: two attempts admitted in the same second although
\* the limit is one: both read the file before either committed.
C5_BothAdmitted ==
  /\ RateN(file.content) = 1
  /\ \A p \in Procs :
       /\ att[p].pc = "check"
       /\ att[p].pass
       /\ att[p].now = BaseTime

\* the attempts at 0, 1, 2 and 3 seconds of the scenario have returned, the
\* first three admitted, the fourth rejected, all four committed
FourAttempts ==
  /\ Returned = 4
  /\ \A i \in 1..4 :
       [now |-> BaseTime + i - 1, pass |-> i < 4, replaced |-> TRUE]
         \in BagToSet(hist)

\* C6 as stated: with RATE_LIMIT 3 30, after attempts at 0, 1 and 2 and a
\* rejected one at 3, the next attempt, at 31 seconds, passes the limiter.
C6_PassesAt31 ==
  \A p \in Procs :
    ( /\ FourAttempts
      /\ att[p].pc \in {"prompt", "persist"}
      /\ att[p].now = BaseTime + 31 )
    => att[p].pass

\* C6 amended: the rejected attempt is recorded as well (the three latest
\* timestamps are kept), so the next attempt is rejected at 31 seconds and
\* passes at 32; in general an attempt passes exactly when, itself
\* included, at most N of the timestamps on the line it read are no older
\* than T seconds.
C6_RejectedAttemptsCount ==
  \A p \in Procs :
    (att[p].pc \in {"prompt", "persist"} /\ HasCfg(att[p].buf0, "RATE_LIMIT")) =>
      LET a == att[p]
          recent == {k \in 1..Len(RateList(a.buf0)) :
                       /\ RateList(a.buf0)[k] >= a.now - RateT(a.buf0)
                       /\ RateList(a.buf0)[k] <= a.now}
      IN /\ a.pass <=> Cardinality(recent) + 1 <= RateN(a.buf0)
         /\ FourAttempts =>
              /\ RateList(a.buf0) = <<BaseTime + 1, BaseTime + 2, BaseTime + 3>>
              /\ a.now = BaseTime + 31 => ~a.pass
              /\ a.now = BaseTime + 32 => a.pass

\* C6 witness: after the four attempts, the fifth, at 31 seconds, has been
\* rejected by the rate limiter.
C6_Witness ==
  \E p \in Procs :
    /\ FourAttempts
    /\ att[p].pc = "persist"
    /\ att[p].now = BaseTime + 31
    /\ att[p].stage = "SecretDecoded"
    /\ ~att[p].pass

\* C11: the state file and its temp sibling are touched only under the
\* target user's filesystem uid: the step that opens and reads the file
\* leaves the process with that uid, and every process that is at a step of
\* write_file_contents has it; and whenever a process is not inside an
\* attempt its filesystem uid is the one it had before (root), whatever way
\* the attempt ended.
C11_IdentityScoped ==
  /\ [](\A p \in Procs :
          /\ (att[p].pc \in {"stat", "write", "rename", "unlink"}
                \/ (att[p].pc = "persist"
                      /\ ShouldPersist(att[p].updated, att[p].rc)))
               => fsuid[p] = UserUid
          /\ att[p].pc = "idle" => fsuid[p] = RootUid)
  /\ [][\A p \in Procs :
          (att[p].readVer = -1 /\ att'[p].readVer >= 0)
            => fsuid'[p] = UserUid]_vars

\* C11 witness: attempts have returned with success and with the error,
\* the last one after a commit that failed at the rename; the process is
\* out of the attempt again and has its old filesystem uid.
C11_Witness ==
  /\ att[1].pc = "idle"
  /\ fsuid[1] = RootUid
  /\ tmp = NoTmp
  /\ \E e \in BagToSet(hist) : e.rc = PAM_SUCCESS
  /\ \E e \in BagToSet(hist) : e.rc = PAM_SESSION_ERR
  /\ file.ver >= 1

\* bit b (a power of two) of mode m is set
HasBit(m, b) == (m \div b) % 2 = 1

\* process p begins an attempt in this step
Begins(p) == att[p].pc = "idle" /\ att'[p].pc # "idle"

\* C12 as stated: the state file is accepted only if it is a regular file
\* of the expected uid whose twelve mode bits are exactly 0400, and such a
\* file is accepted.
C12_OnlyOwnerRead ==
  [][\A p \in Procs :
       Begins(p) =>
         (att'[p].readVer >= 0
            <=> (file.kind = "reg" /\ file.owner = UserUid
                   /\ file.mode = OwnerRead))]_vars

\* C12 amended: the state file is accepted exactly if it is a regular file
\* of the expected uid with owner-read set and owner-execute, setgid,
\* sticky and every group and other bit clear; setuid and owner-write are
\* not looked at.
C12_MaskedOwnerRead ==
  [][\A p \in Procs :
       Begins(p) =>
         (att'[p].readVer >= 0
            <=> (/\ file.kind = "reg"
                 /\ file.owner = UserUid
                 /\ HasBit(file.mode, 256)
                 /\ ~HasBit(file.mode, 64)
                 /\ ~HasBit(file.mode, 1024)
                 /\ ~HasBit(file.mode, 512)
                 /\ file.mode % 64 = 0))]_vars

\* C12 witness: an attempt has read a state file of mode 04600 (setuid,
\* owner-read, owner-write) and has accepted a scratch code of it.
C12_Witness ==
  \E p \in Procs :
    /\ att[p].pc = "persist"
    /\ att[p].rc = PAM_SUCCESS
    /\ att[p].via = "scratch"
    /\ att[p].readVer = 0
    /\ file.ver = 0
    /\ file.mode = 2048 + 256 + 128
    /\ ~file.link

\* C13: an attempt whose state-file path is a symbolic link fails at the
\* open step and does not read the file the link leads to.
C13_NoFollow ==
  [][\A p \in Procs :
       (Begins(p) /\ file.link) =>
         (att'[p].readVer = -1 /\ att'[p].buf = <<>>)]_vars

\* C13, the case found: the path was a symbolic link; the attempt read the
\* file the link leads to, consumed a scratch code of it and returns
\* success, its rename having put a regular file in the place of the link.
C13_ReadThroughLink ==
  \E p \in Procs :
    /\ att[p].pc = "cleanup"
    /\ att[p].rc = PAM_SUCCESS
    /\ att[p].via = "scratch"
    /\ att[p].replaced
    /\ 12345678 \in ScratchCodes(att[p].buf0)
    /\ file.ver = 1
    /\ ~file.link

\* the code of attempt a is the code of the exact current counter, tm plus
\* the stored TIME_SKEW, at some instant between the start of the
\* attempt's rate limiter and now
ExactCode(a) ==
  \E t \in a.now..clock :
    a.code = compute_code(get_timestamp(t) + SkewOf(a.buf0))

\* the buffer has the line WINDOW_SIZE 1
WindowOne(buf) ==
  HasCfg(buf, "WINDOW_SIZE") /\ get_cfg_value("WINDOW_SIZE", buf) = <<1>>

\* C14 as stated: with WINDOW_SIZE 1 an attempt with a time-based code
\* returns success only if its code is the code of the exact current
\* counter.
C14_OnlyExactCounter ==
  \A p \in Procs :
    (Returning(p) /\ att[p].rc = PAM_SUCCESS /\ WindowOne(att[p].buf0))
      => ExactCode(att[p])

\* C14 amended: with WINDOW_SIZE 1 an attempt returns success either by
\* the window, and then its code is the code of the exact current counter,
\* or by the skew learning, and then its code is the code of another
\* counter less than 1500 steps away, the file it read held the evidence
\* of two earlier attempts at least, and its buffer has the new TIME_SKEW
\* and an empty RESETTING_TIME_SKEW.
C14_ExactOrSkewLearned ==
  \A p \in Procs :
    (Returning(p) /\ att[p].rc = PAM_SUCCESS /\ WindowOne(att[p].buf0))
      => \/ att[p].via = "window" /\ ExactCode(att[p])
         \/ /\ att[p].via = "skew"
            /\ att[p].code = compute_code(att[p].ctr)
            /\ \E t \in att[p].now..clock :
                 /\ att[p].ctr - get_timestamp(t) \in
                      (1 - SkewRange)..(SkewRange - 1)
                 /\ att[p].ctr # get_timestamp(t) + SkewOf(att[p].buf0)
            /\ Len(get_cfg_value("RESETTING_TIME_SKEW", att[p].buf0))
                 >= 2 * (SkewEntries - 1)
            /\ HasCfg(att[p].buf, "TIME_SKEW")
            /\ get_cfg_value("RESETTING_TIME_SKEW", att[p].buf) = <<>>

\* C14 witness: with WINDOW_SIZE 1 and no stored skew, the third attempt
\* of a token one step ahead returns success by the skew learning and has
\* replaced the file.
C14_Witness ==
  \E p \in Procs :
    /\ att[p].pc = "cleanup"
    /\ att[p].rc = PAM_SUCCESS
    /\ att[p].via = "skew"
    /\ att[p].replaced
    /\ WindowOne(att[p].buf0)
    /\ SkewOf(att[p].buf0) = 0
    /\ SkewOf(att[p].buf) = 1
    /\ ~ExactCode(att[p])

\* the attempt number i that returned did so in time step i (counting from
\* the start) and with the outcome given
AttemptAt(i, rc, via, replaced) ==
  \E e \in BagToSet(hist) :
    /\ e.idx = i
    /\ get_timestamp(e.t) = get_timestamp(BaseTime) + i - 1
    /\ e.rc = rc
    /\ e.via = via
    /\ e.replaced = replaced

\* the first n attempts were made in the time steps 1..n and were all
\* committed
Consecutive(n) ==
  \A i \in 1..n :
    \E e \in BagToSet(hist) :
      /\ e.idx = i
      /\ get_timestamp(e.t) = get_timestamp(BaseTime) + i - 1
      /\ e.replaced

\* C15: the token runs StaleSteps ahead and its code is submitted in three
\* consecutive time steps, every commit succeeding: the first two attempts
\* fail (and have recorded their evidence), the third returns success by
\* the skew learning and leaves TIME_SKEW = StaleSteps and an empty
\* RESETTING_TIME_SKEW in the file, and the next attempt, when it commits,
\* returns success through the window.
C15_SkewLearnedAtThird ==
  /\ Consecutive(1) => AttemptAt(1, PAM_SESSION_ERR, "none", TRUE)
  /\ (Consecutive(1) /\ Returned = 1 /\ file.ver = 1) =>
       get_cfg_value("RESETTING_TIME_SKEW", file.content)
         = <<get_timestamp(BaseTime), StaleSteps>>
  /\ Consecutive(2) => AttemptAt(2, PAM_SESSION_ERR, "none", TRUE)
  /\ Consecutive(SkewEntries) =>
       /\ AttemptAt(SkewEntries, PAM_SUCCESS, "skew", TRUE)
       /\ (Returned = SkewEntries /\ file.ver = SkewEntries) =>
            /\ get_cfg_value("TIME_SKEW", file.content) = <<StaleSteps>>
            /\ HasCfg(file.content, "RESETTING_TIME_SKEW")
            /\ get_cfg_value("RESETTING_TIME_SKEW", file.content) = <<>>
       /\ \A e \in BagToSet(hist) :
            (e.idx = SkewEntries + 1 /\ e.replaced) =>
              (e.rc = PAM_SUCCESS /\ e.via = "window")

\* C15 witness: three attempts in consecutive time steps have failed,
\* failed and succeeded by the skew learning, and a fourth, one time step
\* later, has returned success through the window.
C15_Witness ==
  /\ Consecutive(SkewEntries)
  /\ AttemptAt(SkewEntries, PAM_SUCCESS, "skew", TRUE)
  /\ AttemptAt(SkewEntries + 1, PAM_SUCCESS, "window", TRUE)
  /\ SkewOf(file.content) = StaleSteps

\* the option keys the module knows
OptionKeys ==
  {"TOTP_AUTH", "RATE_LIMIT", "DISALLOW_REUSE", "WINDOW_SIZE", "TIME_SKEW",
   "RESETTING_TIME_SKEW"}

\* C16: the state file keeps its shape whatever the attempts do: line 1 is
\* the secret and no other line is, no option key has more than one line,
\* and the file is text, made of the secret, option lines, scratch codes
\* and empty lines only (what write() copied up to the buffer's
\* terminating NUL).
C16_FileInvariants ==
  /\ Len(file.content) >= 1
  /\ file.content[1] = SecretLine
  /\ \A i \in 2..Len(file.content) : file.content[i].t # "secret"
  /\ \A key \in OptionKeys :
       Cardinality({i \in 1..Len(file.content) : IsKey(file.content[i], key)})
         <= 1
  /\ \A i \in 1..Len(file.content) :
       /\ file.content[i].t \in {"secret", "flag", "opt", "scratch", "blank"}
       /\ file.content[i].t \in {"flag", "opt"}
            => file.content[i].key \in OptionKeys

\* C16 witness: the file has been replaced three times; a scratch code has
\* been consumed, the rate limiter's list rewritten and the evidence of a
\* late code inserted after line 1.
C16_Witness ==
  /\ file.ver = 3
  /\ \E i \in 1..Len(file.content) : file.content[i] = Blank
  /\ HasCfg(file.content, "RATE_LIMIT")
  /\ IsKey(file.content[2], "RESETTING_TIME_SKEW")
  /\ get_cfg_value("RESETTING_TIME_SKEW", file.content) # <<>>

\* process p is at a step of write_file_contents
Committing(p) == att[p].pc \in {"stat", "write", "rename", "unlink"}

\* C17: an attempt whose updated flag is never set changes nothing: no
\* step it takes changes the state file (contents, size, mtime) or creates
\* the temp sibling, and it returns without having run the commit.
C17_NoMutationNoWrite ==
  /\ [][\A p \in Procs :
          (att'[p] # att[p] /\ ~att[p].updated /\ ~att'[p].updated)
            => (file' = file /\ tmp' = tmp)]_vars
  /\ [](\A p \in Procs :
          ~att[p].updated => (~Committing(p) /\ att[p].commit = "none"))

\* C17 witness: without a RATE_LIMIT line an attempt with a wrong code has
\* been decided and is about to return, its buffer as it was read; the
\* file is the one it read and there is no temp file.
C17_Witness ==
  \E p \in Procs :
    /\ Returning(p)
    /\ att[p].stage = "Decided"
    /\ att[p].rc = PAM_SESSION_ERR
    /\ ~att[p].updated
    /\ att[p].buf = att[p].buf0
    /\ file.content = att[p].buf0
    /\ file.mtime = att[p].mtime
    /\ tmp = NoTmp

\* C18 as stated: the commit runs exactly if the attempt reached Decided
\* and its updated flag is set.
C18_CommitIffDecided ==
  \A p \in Procs :
    /\ Committing(p) => (att[p].stage = "Decided" /\ att[p].updated)
    /\ Returning(p) =>
         (att[p].commit # "none"
            <=> (att[p].stage = "Decided" /\ att[p].updated))

\* C18 amended: the commit runs exactly if the updated flag is set,
\* whatever state the attempt reached.
C18_CommitIffUpdated ==
  \A p \in Procs :
    /\ Committing(p) => att[p].updated
    /\ Returning(p) => (att[p].commit # "none" <=> att[p].updated)

\* C18 witness: an attempt stopped by the rate limiter, which never asked
\* for a code, has replaced the file with its buffer.
C18_Witness ==
  \E p \in Procs :
    /\ att[p].pc = "cleanup"
    /\ att[p].stage = "SecretDecoded"
    /\ ~att[p].pass
    /\ att[p].code = -1
    /\ att[p].commit = "ok"
    /\ file.content = att[p].buf
    /\ file.content # att[p].buf0

\* the lines the TOTP verifier writes
TotpKeys == {"DISALLOW_REUSE", "TIME_SKEW", "RESETTING_TIME_SKEW"}

\* the lines of a buffer that belong to the keys
LinesOf(buf, keys) ==
  SelectSeq(buf, LAMBDA l : l.t \in {"flag", "opt"} /\ l.key \in keys)

\* C19: at the code check, a code that is a scratch code of the buffer is
\* accepted at once: the verdict is success by the scratch code, the
\* DISALLOW_REUSE, TIME_SKEW and RESETTING_TIME_SKEW lines are as they
\* were, and nothing but the code's line has changed.  A code that is no
\* scratch code leaves the scratch codes as they were and is decided by
\* the TOTP verifier: the token's current code is accepted by the window
\* or refused by the replay ledger.
C19_ScratchBeforeTotp ==
  [][\A p \in Procs :
       (att[p].pc = "check" /\ att'[p].pc # "check") =>
         IF att[p].code \in ScratchCodes(att[p].buf)
         THEN /\ att'[p].rc = PAM_SUCCESS
              /\ att'[p].via = "scratch"
              /\ att'[p].code \notin ScratchCodes(att'[p].buf)
              /\ LinesOf(att'[p].buf, TotpKeys) = LinesOf(att[p].buf, TotpKeys)
              /\ Without(att'[p].buf, att[p].code)
                   = Without(att[p].buf, att[p].code)
         ELSE /\ ScratchCodes(att'[p].buf) = ScratchCodes(att[p].buf)
              /\ att'[p].via # "scratch"
              /\ att[p].code
                   = compute_code(get_timestamp(clock) + SkewOf(att[p].buf))
                   => att'[p].via \in {"window", "replay"}]_vars

\* C19 witness: a scratch code has just been accepted from a buffer that
\* holds the evidence of a late code and a replay ledger; both lines are
\* in the buffer as they were read.
C19_Witness ==
  \E p \in Procs :
    /\ att[p].pc = "persist"
    /\ att[p].via = "scratch"
    /\ att[p].rc = PAM_SUCCESS
    /\ get_cfg_value("RESETTING_TIME_SKEW", att[p].buf) # <<>>
    /\ HasCfg(att[p].buf, "DISALLOW_REUSE")
    /\ LinesOf(att[p].buf, TotpKeys) = LinesOf(att[p].buf0, TotpKeys)
    /\ ScratchCodes(att[p].buf) = {87654321}

\* the WINDOW_SIZE a buffer asks for
ConfiguredWindow(buf) ==
  IF HasCfg(buf, "WINDOW_SIZE") THEN get_cfg_value("WINDOW_SIZE", buf)[1]
  ELSE DefaultWindow

\* the counters of the acceptance window as the claim gives them
ClaimedWindow(tm, skew, w) ==
  {tm + skew + i : i \in (-((w - 1) \div 2))..(w \div 2)}

\* C20: the acceptance window of WINDOW_SIZE w and TIME_SKEW skew is the
\* w counters tm + skew + i, i from -((w-1)/2) to w/2, for every w of
\* 1..100; w = 3 without skew gives tm-1, tm, tm+1.  At the code check a
\* code that is the code of one of these counters is decided by the replay
\* ledger at that counter (refused if the counter is on the DISALLOW_REUSE
\* line, accepted otherwise); a code of no counter of the window is not
\* accepted by the window.
C20_WindowIsExact ==
  /\ \A w \in 1..MaxWindow :
       /\ Cardinality(ClaimedWindow(0, 0, w)) = w
       /\ {WindowOffsets(w)[k] : k \in 1..w} = ClaimedWindow(0, 0, w)
  /\ ClaimedWindow(get_timestamp(BaseTime), 0, DefaultWindow)
       = (get_timestamp(BaseTime) - 1)..(get_timestamp(BaseTime) + 1)
  /\ [][\A p \in Procs :
          (att[p].pc = "check" /\ att'[p].pc # "check") =>
            LET win == ClaimedWindow(get_timestamp(clock), SkewOf(att[p].buf),
                                     ConfiguredWindow(att[p].buf))
                hit == {c \in win : compute_code(c) = att[p].code}
            IN IF hit # {}
               THEN /\ att'[p].ctr \in hit
                    /\ \A c \in hit : att'[p].ctr <= c
                    /\ IF att'[p].ctr \in Blocked(att[p].buf)
                       THEN att'[p].via = "replay"
                              /\ att'[p].rc = PAM_SESSION_ERR
                       ELSE att'[p].via = "window"
                              /\ att'[p].rc = PAM_SUCCESS
                              /\ att'[p].ctr \in Blocked(att'[p].buf)
               ELSE att'[p].via \notin {"window", "replay"}
                      /\ att'[p].rc = PAM_SESSION_ERR]_vars

\* C20 witness: with WINDOW_SIZE 4 and TIME_SKEW 3 the code of counter
\* tm + 3 + 2, the last of the window, has been accepted.
C20_Witness ==
  \E p \in Procs :
    /\ att[p].pc = "persist"
    /\ att[p].via = "window"
    /\ att[p].rc = PAM_SUCCESS
    /\ ConfiguredWindow(att[p].buf0) = 4
    /\ SkewOf(att[p].buf0) = 3
    /\ att[p].ctr = get_timestamp(clock) + 3 + 2

Dist(a, b) == IF a >= b THEN a - b ELSE b - a

\* the DISALLOW_REUSE line of a buffer
Ledger(buf) == get_cfg_value("DISALLOW_REUSE", buf)

\* C21: at the code check, when the code matches a counter c of the window
\* and the buffer has a DISALLOW_REUSE line: if c is on the line the
\* attempt is refused and the buffer is left as it was; otherwise the new
\* line is the old entries less than w steps from c, in their old order,
\* followed by c, and the updated flag is set.
C21_LedgerUpdate ==
  [][\A p \in Procs :
       (/\ att[p].pc = "check" /\ att'[p].pc # "check"
        /\ att'[p].via \in {"window", "replay"}
        /\ HasCfg(att[p].buf, "DISALLOW_REUSE")) =>
         LET c == att'[p].ctr
             old == Ledger(att[p].buf)
             w == ConfiguredWindow(att[p].buf)
         IN IF c \in Blocked(att[p].buf)
            THEN /\ att'[p].rc = PAM_SESSION_ERR
                 /\ att'[p].via = "replay"
                 /\ att'[p].buf = att[p].buf
                 /\ att'[p].updated = att[p].updated
            ELSE /\ att'[p].rc = PAM_SUCCESS
                 /\ Ledger(att'[p].buf)
                      = SelectSeq(old, LAMBDA b : Dist(b, c) < w) \o <<c>>
                 /\ att'[p].updated]_vars

\* C21 witness: with window 3 and the ledger tm-4, tm-1, tm+2 the code of
\* tm+1 has been accepted; the new ledger is tm-1, tm+2, tm+1.
C21_Witness ==
  \E p \in Procs :
    /\ att[p].pc = "persist"
    /\ att[p].via = "window"
    /\ Len(Ledger(att[p].buf0)) = 3
    /\ ConfiguredWindow(att[p].buf0) = 3
    /\ Ledger(att[p].buf)
         = <<att[p].ctr - 2, att[p].ctr + 1, att[p].ctr>>
    /\ att[p].updated

\* the attempts of a list, the current one included, that fall in the
\* interval [now - T, now]
InInterval(list, now, T) ==
  SelectSeq(<<now>> \o list, LAMBDA t : now - T <= t /\ t <= now)

Ascending(list) == \A i \in 1..(Len(list) - 1) : list[i] <= list[i + 1]

LastN(list, n) ==
  IF Len(list) > n THEN SubSeq(list, Len(list) - n + 1, Len(list)) ELSE list

\* C22: after the rate limiter has run at time now on a line RATE_LIMIT N T,
\* the line holds N, T and a list that is ascending, lies in [now - T, now],
\* has at most N entries, holds now and is the most recent N of the
\* attempts in the interval; the attempt is refused exactly when more than N
\* attempts, now included, fall in the interval.
C22_RateLineAfterRun ==
  [][\A p \in Procs :
       (/\ att[p].pc = "rate" /\ att'[p].pc # "rate"
        /\ HasCfg(att[p].buf, "RATE_LIMIT")) =>
         LET now == clock
             N == RateN(att[p].buf)
             T == RateT(att[p].buf)
             inside == InInterval(RateList(att[p].buf), now, T)
             new == RateList(att'[p].buf)
         IN /\ RateN(att'[p].buf) = N
            /\ RateT(att'[p].buf) = T
            /\ Ascending(new)
            /\ \A i \in 1..Len(new) : now - T <= new[i] /\ new[i] <= now
            /\ Len(new) <= N
            /\ \E i \in 1..Len(new) : new[i] = now
            /\ new = LastN(Sort(inside), N)
            /\ att'[p].pass = ~(Len(inside) > N)
            /\ att'[p].updated]_vars

\* C22 witness: on RATE_LIMIT 2 30 with an attempt of the future, one 30
\* seconds old and one a second old, the attempt has passed and the line
\* holds the two old attempts' successors: the one a second old and now.
C22_Witness ==
  \E p \in Procs :
    /\ att[p].pc = "prompt"
    /\ att[p].pass
    /\ att[p].now = BaseTime + 1
    /\ RateList(att[p].buf0) = <<BaseTime + 3, BaseTime - 30, BaseTime>>
    /\ RateN(att[p].buf) = 2 /\ RateT(att[p].buf) = 30
    /\ RateList(att[p].buf) = <<BaseTime, BaseTime + 1>>

\* the RESETTING_TIME_SKEW line of a buffer, <<>> when it has none
Resetting(buf) ==
  IF HasCfg(buf, "RESETTING_TIME_SKEW")
  THEN get_cfg_value("RESETTING_TIME_SKEW", buf) ELSE <<>>

\* the last (up to) three entries of a ledger, as (tm, skew) pairs
Pairs(val) ==
  LET n == Len(val) \div 2
      k == IF n > SkewEntries THEN n - SkewEntries ELSE 0
  IN [i \in 1..(n - k) |-> <<val[2 * (k + i) - 1], val[2 * (k + i)]>>]

\* process p takes the code check into the skew tracker: no counter of the
\* window matched and the search found a skew
TracksSkew(p) ==
  /\ att[p].pc = "check" /\ att'[p].pc # "check"
  /\ \/ att'[p].via = "skew"
     \/ att'[p].via = "none" /\ att'[p].ctr # 0

\* the attempt's code is the one of the most recent entry
Retyped(ent, tm, skew) ==
  ent # <<>> /\ tm + skew = ent[Len(ent)][1] + ent[Len(ent)][2]

\* three entries, tm strictly increasing by at most 2, every two skews at
\* most 1 apart
SteadyEvidence(ent) ==
  /\ Len(ent) = SkewEntries
  /\ \A i \in 1..(SkewEntries - 1) :
       ent[i][1] < ent[i + 1][1] /\ ent[i + 1][1] <= ent[i][1] + 2
  /\ \A i, j \in 1..SkewEntries : Dist(ent[i][2], ent[j][2]) <= 1

\* C23: the skew tracker accepts an attempt that brings new evidence exactly
\* when the last three entries, the new one included, have strictly
\* increasing tm with gaps of at most 2 and skews that pairwise differ by at
\* most 1; then TIME_SKEW is their truncated average and the
\* RESETTING_TIME_SKEW ledger is empty; otherwise the attempt fails and the
\* ledger holds the entries.
C23_AcceptIffSteady ==
  [][\A p \in Procs :
       LET tm == get_timestamp(clock)
           skew == att'[p].ctr - tm
           old == Pairs(Resetting(att[p].buf))
           ent == Pairs(Resetting(att[p].buf) \o <<tm, skew>>)
       IN (TracksSkew(p) /\ ~Retyped(old, tm, skew)) =>
            /\ att'[p].via = "skew" <=> SteadyEvidence(ent)
            /\ att'[p].via = "skew" <=> att'[p].rc = PAM_SUCCESS
            /\ att'[p].updated
            /\ IF att'[p].via = "skew"
               THEN /\ get_cfg_value("TIME_SKEW", att'[p].buf)
                         = <<CDiv(ent[1][2] + ent[2][2] + ent[3][2], 3)>>
                    /\ Resetting(att'[p].buf) = <<>>
               ELSE Pairs(Resetting(att'[p].buf)) = ent]_vars

\* C23 witness of the divergence: an attempt has been accepted by the skew
\* tracker although the two entries it found on the line have skews 2 apart.
C23_AcceptedTwoApart ==
  \E p \in Procs :
    /\ att[p].pc = "persist"
    /\ att[p].via = "skew"
    /\ att[p].rc = PAM_SUCCESS
    /\ Len(Resetting(att[p].buf0)) = 4
    /\ Dist(Resetting(att[p].buf0)[2], Resetting(att[p].buf0)[4]) = 2

\* the TIME_SKEW line of a buffer, <<>> when it has none
TimeSkewLine(buf) ==
  IF HasCfg(buf, "TIME_SKEW") THEN <<get_cfg_value("TIME_SKEW", buf)>> ELSE <<>>

\* C24: when the skew tracker fails an attempt that brings new evidence, the
\* RESETTING_TIME_SKEW line it leaves holds the last three of the old
\* entries followed by the new one, so never more than three and the oldest
\* dropped first; an attempt whose tm + skew is that of the most recent
\* entry fails and leaves the buffer, with its RESETTING_TIME_SKEW and
\* TIME_SKEW lines, as it was.
C24_LedgerBounded ==
  [][\A p \in Procs :
       LET tm == get_timestamp(clock)
           skew == att'[p].ctr - tm
           old == Pairs(Resetting(att[p].buf))
           ent == Pairs(Resetting(att[p].buf) \o <<tm, skew>>)
       IN TracksSkew(p) =>
            IF Retyped(old, tm, skew)
            THEN /\ att'[p].rc = PAM_SESSION_ERR
                 /\ att'[p].via = "none"
                 /\ Resetting(att'[p].buf) = Resetting(att[p].buf)
                 /\ TimeSkewLine(att'[p].buf) = TimeSkewLine(att[p].buf)
                 /\ att'[p].buf = att[p].buf
                 /\ att'[p].updated = att[p].updated
            ELSE /\ Len(Resetting(att'[p].buf)) <= 2 * SkewEntries
                 /\ att'[p].rc # PAM_SUCCESS =>
                      /\ Len(Resetting(att'[p].buf)) = 2 * Len(ent)
                      /\ Pairs(Resetting(att'[p].buf)) = ent]_vars

\* C24 witness: a failed attempt on a ledger of three entries has left
\* three entries: the second and third of the old ones and its own.
C24_Witness ==
  \E p \in Procs :
    /\ att[p].pc = "persist"
    /\ att[p].via = "none" /\ att[p].ctr # 0
    /\ att[p].rc = PAM_SESSION_ERR
    /\ att[p].updated
    /\ Len(Resetting(att[p].buf0)) = 2 * SkewEntries
    /\ Resetting(att[p].buf)
         = SubSeq(Resetting(att[p].buf0), 3, 2 * SkewEntries)
             \o <<get_timestamp(att[p].now), att[p].ctr - get_timestamp(att[p].now)>>

\* the keys the module stores and values to store under them
StoreKeys ==
  {"RATE_LIMIT", "DISALLOW_REUSE", "WINDOW_SIZE", "TIME_SKEW",
   "RESETTING_TIME_SKEW", "TOTP_AUTH"}
StoreValues == {<<>>, <<7>>, <<3, 30>>}

\* the lines of a buffer that are not empty
Content(buf) == SelectSeq(buf, LAMBDA l : l.t # "blank")

\* line 1, the lines of the other keys and the scratch codes, in order
Others(buf, key) == SelectSeq(Content(buf), LAMBDA l : ~IsKey(l, key))

\* the non-empty lines above line i
Above(buf, i) == Content(SubSeq(buf, 1, i - 1))

\* the round trip on buffer b
RoundTrip(b, key, val) ==
  LET b2 == set_cfg_value(key, val, b)
      i2 == FirstIdx(b2, key)
  IN /\ Cardinality({i \in 1..Len(b2) : IsKey(b2[i], key)}) = 1
     /\ b2[i2] = Opt(key, val)
     /\ HasCfg(b2, key) /\ get_cfg_value(key, b2) = val
     /\ Others(b2, key) = Others(b, key)
     /\ b2[1] = b[1]
     /\ Above(b2, i2) = IF HasCfg(b, key) THEN Above(b, FirstIdx(b, key))
                                          ELSE <<b[1]>>

\* C25: for every buffer an attempt holds, every key and every value, after
\* set(key, value) the buffer has exactly one line of the key, an option
\* line with that value, get(key) returns the value, line 1 and the lines
\* of the other keys and the scratch codes are the same in the same order,
\* and the line stands where the key's first line stood, or right after
\* line 1 when the key had none.
C25_RoundTrip ==
  \A p \in Procs :
    att[p].buf # <<>> =>
      \A key \in StoreKeys, val \in StoreValues :
        RoundTrip(att[p].buf, key, val)

\* C25 witness: the rate limiter has stored its line in a buffer that held
\* two RATE_LIMIT lines with another line between them; one is left, in the
\* place of the first.
C25_Witness ==
  \E p \in Procs :
    /\ att[p].pc = "prompt"
    /\ Len(att[p].buf0) = 4
    /\ IsKey(att[p].buf0[2], "RATE_LIMIT")
    /\ att[p].buf0[3] = Scratch(12345678)
    /\ IsKey(att[p].buf0[4], "RATE_LIMIT")
    /\ att[p].buf = <<SecretLine, Opt("RATE_LIMIT", <<2, 30, att[p].now>>),
                      Scratch(12345678)>>

\* the attempts between the creation of their temp file and its rename or
\* unlink
Holders == {p \in Procs : att[p].pc \in {"stat", "write", "rename", "unlink"}}

\* C26: at most one attempt at a time is between the exclusive creation of
\* the temp file and its rename or unlink, and the temp file exists exactly
\* then (so none is left once every attempt has returned); an attempt that
\* starts its commit while the temp file exists fails the commit with a
\* session error and leaves the temp file and the state file as they are.
C26_TempIsMutex ==
  /\ [](/\ Cardinality(Holders) <= 1
        /\ tmp.exists <=> Holders # {}
        /\ \A p \in Holders : tmp.owner = p
        /\ (\A p \in Procs : att[p].pc = "idle") => ~tmp.exists)
  /\ [][\A p \in Procs :
          (/\ att[p].pc = "persist" /\ att'[p].pc \notin {"persist", "idle"}
           /\ tmp.exists) =>
            /\ att'[p].pc = "cleanup"
            /\ att'[p].commit = "failed"
            /\ att'[p].rc = PAM_SESSION_ERR
            /\ tmp' = tmp
            /\ file' = file]_vars

\* C26 witness: an attempt has failed its commit because the other attempt
\* holds the temp file, which is still there.
C26_Witness ==
  \E p \in Procs, q \in Procs :
    /\ p # q
    /\ att[p].pc = "cleanup"
    /\ att[p].commit = "failed"
    /\ att[p].rc = PAM_SESSION_ERR
    /\ att[q].pc = "write"
    /\ tmp.exists /\ tmp.owner = q
    /\ file.ver = 0

\* C28: whatever attempts were killed during their commit, an attempt that
\* runs alone, holds a success verdict for a correct code and has changed
\* its buffer is not refused when it starts its commit: it creates the temp
\* file and keeps its verdict.
C28_DeathDoesNotBlock ==
  [][\A p \in Procs :
       (/\ att[p].pc = "persist" /\ att'[p].pc \notin {"persist", "idle"}
        /\ att[p].rc = PAM_SUCCESS
        /\ att[p].updated
        /\ \A q \in Procs \ {p} : att[q].pc = "idle") =>
         /\ att'[p].pc = "stat"
         /\ att'[p].rc = PAM_SUCCESS]_vars

\* C28 witness of the divergence: the temp file of a killed attempt is
\* still there, held by no attempt, and an attempt that ran alone with a
\* correct scratch code has failed its commit and holds a session error.
C28_BlockedByDeadTemp ==
  \E p \in Procs :
    /\ tmp.exists
    /\ Holders = {}
    /\ att[p].pc = "cleanup"
    /\ att[p].via = "scratch"
    /\ att[p].commit = "failed"
    /\ att[p].rc = PAM_SESSION_ERR
    /\ \A q \in Procs \ {p} : att[q].pc = "idle"

\* the first counter of the acceptance window at counter tm
WindowLow(buf, tm) == tm + SkewOf(buf) - ((ConfiguredWindow(buf) - 1) \div 2)

\* an accepted attempt drops from its ledger only counters below the
\* acceptance window of the current time step, and so of every later one
ExpirySound ==
  [][\A p \in Procs :
       (/\ att[p].pc = "check" /\ att'[p].pc # "check"
        /\ att'[p].via = "window"
        /\ HasCfg(att[p].buf, "DISALLOW_REUSE")) =>
         \A b \in Blocked(att[p].buf) \ Blocked(att'[p].buf) :
           b < WindowLow(att[p].buf, get_timestamp(clock))]_vars

\* no two attempts have returned success for the same counter
AcceptedOnce ==
  \A e \in BagToSet(hist) :
    (e.rc = PAM_SUCCESS /\ e.via = "window") => CopiesIn(e, hist) = 1

\* C27: with the window and the skew as the file has them and the clock
\* never going back, an accepted attempt drops from the DISALLOW_REUSE line
\* only counters that lie below the acceptance window of its own and of
\* every later time step, and no counter is accepted twice.
C27_ExpirySoundNoReuse == ExpirySound /\ []AcceptedOnce

\* C27 witness of the divergence: two attempts have returned success for
\* the code of the same counter.
C27_AcceptedTwice ==
  \E e \in BagToSet(hist) :
    /\ e.rc = PAM_SUCCESS /\ e.via = "window"
    /\ CopiesIn(e, hist) >= 2

\* C29: the state file changes only by the rename of a commit, and the
\* rename of an attempt whose verdict is session-error removes no scratch
\* code from the file and adds no counter to its DISALLOW_REUSE line.
C29_OnlySuccessConsumes ==
  [][/\ file'.content # file.content => \E p \in Procs : Replaces(p)
     /\ \A p \in Procs :
          (Replaces(p) /\ att[p].rc # PAM_SUCCESS) =>
            /\ ScratchCodes(file.content) \subseteq ScratchCodes(file'.content)
            /\ Blocked(file'.content) \subseteq Blocked(file.content)]_vars

\* C29 witness of the divergence: an attempt whose verdict is session-error
\* has renamed its buffer over the file of an accepted login, and the
\* DISALLOW_REUSE line holds the old counter again in place of the accepted
\* one.
C29_LedgerPutBack ==
  \E p \in Procs :
    /\ att[p].pc = "cleanup"
    /\ att[p].rc = PAM_SESSION_ERR
    /\ att[p].commit = "ok"
    /\ file.ver = 2
    /\ Blocked(file.content) = {get_timestamp(BaseTime) - 100}
    /\ \E e \in BagToSet(hist) : e.rc = PAM_SUCCESS /\ e.via = "window"

====
